---- MODULE Spec2Model ----
(***************************************************************************)
(* Model of the raw processor that links Medicaid NADAC price rows to      *)
(* openFDA product records by NDC (scripts/raw-process, main and helpers). *)
(* Strings are sequences of one-character strings.                         *)
(***************************************************************************)
EXTENDS Integers, Sequences, FiniteSets, TLC

(***************************************************************************)
(* Bounds of the model.                                                    *)
(***************************************************************************)
MaxRef == 2
MaxRows == 2
MaxChunkSize == 2
MaxPartRows == 5

MaxSelections == 2

(***************************************************************************)
(* Program constants.                                                      *)
(***************************************************************************)
StripFloor == 5
MinTokenLen == 3

\* the suggestions of the app: shortest search term, longest list
MinTermLen == 2

MaxSuggestions == 10

(***************************************************************************)
(* Characters.                                                             *)
(***************************************************************************)
DigitChars == {"0", "1", "2", "3", "4", "5", "6", "7", "8", "9"}

LowerChars == {"a", "b", "c", "d", "e", "f", "g", "h", "i", "j", "k", "l", "m",
               "n", "o", "p", "q", "r", "s", "t", "u", "v", "w", "x", "y", "z"}

UpperToLower == ("A" :> "a") @@ ("B" :> "b") @@ ("C" :> "c") @@ ("D" :> "d") @@
                ("E" :> "e") @@ ("F" :> "f") @@ ("G" :> "g") @@ ("H" :> "h") @@
                ("I" :> "i") @@ ("J" :> "j") @@ ("K" :> "k") @@ ("L" :> "l") @@
                ("M" :> "m") @@ ("N" :> "n") @@ ("O" :> "o") @@ ("P" :> "p") @@
                ("Q" :> "q") @@ ("R" :> "r") @@ ("S" :> "s") @@ ("T" :> "t") @@
                ("U" :> "u") @@ ("V" :> "v") @@ ("W" :> "w") @@ ("X" :> "x") @@
                ("Y" :> "y") @@ ("Z" :> "z")

SpaceChars == {" ", "\t", "\n"}

IsDigit(c) == c \in DigitChars

IsSpace(c) == c \in SpaceChars

\* [a-z0-9] of the tokenizer's split pattern
IsLowerAlnum(c) == c \in LowerChars \cup DigitChars

ToLower(c) == IF c \in DOMAIN UpperToLower THEN UpperToLower[c] ELSE c

(***************************************************************************)
(* String helpers of the processor.                                        *)
(***************************************************************************)
toLowerCase(s) == [i \in 1..Len(s) |-> ToLower(s[i])]

RECURSIVE CollapseSpaces(_)
\* replace(/\s+/g, ' '): every maximal run of whitespace becomes one space
CollapseSpaces(s) ==
  IF s = <<>> THEN <<>>
  ELSE IF IsSpace(Head(s))
       THEN IF Len(s) > 1 /\ IsSpace(s[2])
            THEN CollapseSpaces(Tail(s))
            ELSE <<" ">> \o CollapseSpaces(Tail(s))
       ELSE <<Head(s)>> \o CollapseSpaces(Tail(s))

RECURSIVE TrimLeft(_)
TrimLeft(s) == IF s # <<>> /\ IsSpace(Head(s)) THEN TrimLeft(Tail(s)) ELSE s

RECURSIVE TrimRight(_)
TrimRight(s) ==
  IF s # <<>> /\ IsSpace(s[Len(s)]) THEN TrimRight(SubSeq(s, 1, Len(s) - 1)) ELSE s

trim(s) == TrimRight(TrimLeft(s))

normalizeWhitespaceLower(s) ==
  IF s = <<>> THEN <<>> ELSE trim(CollapseSpaces(toLowerCase(s)))

RECURSIVE SplitNonAlnum(_, _)
\* split(/[^a-z0-9]+/) with the empty pieces already dropped; cur is the
\* piece being read
SplitNonAlnum(s, cur) ==
  IF s = <<>> THEN (IF cur = <<>> THEN <<>> ELSE <<cur>>)
  ELSE IF IsLowerAlnum(Head(s))
       THEN SplitNonAlnum(Tail(s), Append(cur, Head(s)))
       ELSE (IF cur = <<>> THEN <<>> ELSE <<cur>>) \o SplitNonAlnum(Tail(s), <<>>)

\* variant: tokens of 2 characters are kept
TokenLongEnoughTwo(t) == Len(t) >= 2

TokenLongEnough(t) == Len(t) >= MinTokenLen

tokenizeWords(s) ==
  SelectSeq(SplitNonAlnum(normalizeWhitespaceLower(s), <<>>), TokenLongEnough)

\* variant: only the hyphens are removed
normalizeMedNdcHyphens(ndc) ==
  IF ndc = <<>> THEN <<>> ELSE trim(SelectSeq(ndc, LAMBDA c : c # "-"))

normalizeMedNdc(ndc) ==
  IF ndc = <<>> THEN <<>> ELSE trim(SelectSeq(ndc, IsDigit))

NotHyphen(c) == c # "-"

openFdaDigitsKeepZeros(productNdc) ==
  IF productNdc = <<>> THEN <<>>
  ELSE SelectSeq(SelectSeq(productNdc, NotHyphen), IsDigit)

\* variant: the hyphen is left for the digit filter to drop
HyphenKept(c) == c

HyphenToZero(c) == IF c = "-" THEN "0" ELSE c

openFdaHyphenZeroFill(productNdc) ==
  IF productNdc = <<>> THEN <<>>
  ELSE SelectSeq([i \in 1..Len(productNdc) |-> HyphenToZero(productNdc[i])], IsDigit)

RECURSIVE KeyPos(_, _, _)
\* position of key in an insertion-ordered Map (a sequence of [key, arr]), 0 if absent
KeyPos(map, key, i) ==
  IF i > Len(map) THEN 0
  ELSE IF map[i].key = key THEN i ELSE KeyPos(map, key, i + 1)

MapGet(map, key) ==
  IF KeyPos(map, key, 1) = 0 THEN <<>> ELSE map[KeyPos(map, key, 1)].arr

addToMapArray(map, key, value) ==
  IF KeyPos(map, key, 1) # 0
  THEN [map EXCEPT ![KeyPos(map, key, 1)].arr = Append(@, value)]
  ELSE Append(map, [key |-> key, arr |-> <<value>>])

(***************************************************************************)
(* buildOpenFdaIndexes                                                     *)
(***************************************************************************)
\* one element of entries: openFdaArr.map(...)
MakeEntry(item) ==
  [productNdc |-> item.product_ndc,
   ndcDigits |-> openFdaDigitsKeepZeros(item.product_ndc),
   ndcZeroFill |-> openFdaHyphenZeroFill(item.product_ndc),
   brandName |-> item.brand_name,
   genericName |-> item.generic_name]

\* ndcByLength is a function from the lengths present to insertion-ordered Maps
BucketOf(ndcByLength, L) == IF L \in DOMAIN ndcByLength THEN ndcByLength[L] ELSE <<>>

IndexInsert(ndcByLength, cur, rec) ==
  [L \in DOMAIN ndcByLength \cup {Len(cur)} |->
     IF L = Len(cur) THEN addToMapArray(BucketOf(ndcByLength, L), cur, rec)
     ELSE ndcByLength[L]]

\* variant: the seen set is not consulted
AlreadySeenNever(seen, cur, vtype) == FALSE

\* the per-entry membership test on the seen set
AlreadySeen(seen, cur, vtype) == cur \in seen

\* variant: the floor test is off by one
StripStopsBelowFloor(cur) == Len(cur) < StripFloor \/ cur[1] # "0"

\* the two break conditions of the stripping loop
StripStops(cur) == Len(cur) <= StripFloor \/ cur[1] # "0"

RECURSIVE StripLoop(_, _, _, _)
\* while (true) {...}: st = [nbl, seen] is the index and the entry's seen set
StripLoop(st, cur, idx, vtype) ==
  LET st1 == IF ~AlreadySeen(st.seen, cur, vtype)
             THEN [nbl |-> IndexInsert(st.nbl, cur,
                                       [idx |-> idx, variant |-> cur, vtype |-> vtype]),
                   seen |-> st.seen \cup {cur}]
             ELSE st
  IN IF StripStops(cur) THEN st1 ELSE StripLoop(st1, Tail(cur), idx, vtype)

IndexVariant(st, v, idx, vtype) ==
  IF v = <<>> THEN st ELSE StripLoop(st, v, idx, vtype)

\* body of entries.forEach((e, idx) => ...)
IndexEntry(ndcByLength, e, idx) ==
  LET st0 == [nbl |-> ndcByLength, seen |-> {}]
      st1 == IndexVariant(st0, trim(e.ndcDigits), idx, "digits")
      st2 == IndexVariant(st1, trim(e.ndcZeroFill), idx, "zeroFill")
  IN st2.nbl

(***************************************************************************)
(* collectOpenFdaNdcMatches                                                *)
(***************************************************************************)
\* e.idx is auxiliary: the position in entries of the entry the matcher was
\* formatted from (the JSON object carries only the copied fields)
formatOpenFdaMatcher(e, variant, vtype, matchMode) ==
  [idx |-> e.idx,
   productNdc |-> e.productNdc,
   normalizedProductNdc |-> variant,
   matchedVariantType |-> vtype,
   matchMode |-> matchMode,
   brandName |-> e.brandName,
   genericName |-> e.genericName]

RECURSIVE ToDecimal(_)
ToDecimal(n) ==
  LET d == <<"0", "1", "2", "3", "4", "5", "6", "7", "8", "9">>[(n % 10) + 1]
  IN IF n < 10 THEN <<d>> ELSE Append(ToDecimal(n \div 10), d)

\* idx + '|' + variant + '|' + vtype
Sig(rec) == ToDecimal(rec.idx) \o <<"|">> \o rec.variant \o <<"|", rec.vtype>>

\* variant: the signature set is not consulted
SigSeenNever(seen, rec) == FALSE

\* the membership test on the signature set of one lookup
SigSeen(seen, rec) == Sig(rec) \in seen

RECURSIVE PushAll(_, _, _, _, _)
\* for (const { idx, variant, vtype } of arr) {...}: st = [matches, seen]
PushAll(st, arr, k, entries, matchMode) ==
  IF k > Len(arr) THEN st
  ELSE LET rec == arr[k]
           e == [idx |-> rec.idx] @@ entries[rec.idx + 1]
           st1 == IF SigSeen(st.seen, rec) THEN st
                  ELSE [matches |-> Append(st.matches,
                                           formatOpenFdaMatcher(e, rec.variant, rec.vtype, matchMode)),
                        seen |-> st.seen \cup {Sig(rec)}]
       IN PushAll(st1, arr, k + 1, entries, matchMode)

RECURSIVE SortAsc(_)
\* [...keys].sort((a,b)=>a-b)
SortAsc(S) ==
  IF S = {} THEN <<>>
  ELSE LET m == CHOOSE x \in S : \A y \in S : x <= y
       IN <<m>> \o SortAsc(S \ {m})

slice(s, from, to) == SubSeq(s, from + 1, to)

\* variant: variants as long as the identifier are left out of the forward phase
IsForwardLengthStrict(L, medLen) == L < medLen

IsForwardLength(L, medLen) == L <= medLen

IsReverseLength(L, medLen) == L > medLen

RECURSIVE ForwardPositions(_, _, _, _, _, _)
\* for (let i = 0; i <= medLen - L; i++) {...}
ForwardPositions(st, mapL, L, i, medDigits, entries) ==
  IF i > Len(medDigits) - L THEN st
  ELSE ForwardPositions(PushAll(st, MapGet(mapL, slice(medDigits, i, i + L)), 1, entries, "forward"),
                        mapL, L, i + 1, medDigits, entries)

RECURSIVE ForwardLengths(_, _, _, _, _)
\* for (const L of forward) {...}
ForwardLengths(st, lens, k, medDigits, openIdx) ==
  IF k > Len(lens) THEN st
  ELSE ForwardLengths(ForwardPositions(st, openIdx.ndcByLength[lens[k]], lens[k], 0,
                                       medDigits, openIdx.entries),
                      lens, k + 1, medDigits, openIdx)

\* variant: key.startsWith(medDigits)
includesAtStart(key, medDigits) ==
  Len(medDigits) <= Len(key) /\ slice(key, 0, Len(medDigits)) = medDigits

\* key.includes(medDigits)
includes(key, medDigits) ==
  \E i \in 0..(Len(key) - Len(medDigits)) : slice(key, i, i + Len(medDigits)) = medDigits

RECURSIVE ReverseKeys(_, _, _, _, _)
\* for (const [key, arr] of mapL.entries()) {...}
ReverseKeys(st, mapL, k, medDigits, entries) ==
  IF k > Len(mapL) THEN st
  ELSE ReverseKeys(IF includes(mapL[k].key, medDigits)
                   THEN PushAll(st, mapL[k].arr, 1, entries, "reverse")
                   ELSE st,
                   mapL, k + 1, medDigits, entries)

RECURSIVE ReverseLengths(_, _, _, _, _)
\* for (const L of reverse) {...}
ReverseLengths(st, lens, k, medDigits, openIdx) ==
  IF k > Len(lens) THEN st
  ELSE ReverseLengths(ReverseKeys(st, openIdx.ndcByLength[lens[k]], 1, medDigits, openIdx.entries),
                      lens, k + 1, medDigits, openIdx)

\* variant: the early return after the forward phase is missing
ForwardSufficesNever(matches) == FALSE

\* if (matches.length > 0) return matches;
ForwardSuffices(matches) == Len(matches) > 0

collectOpenFdaNdcMatches(medNdcOriginal, openIdx) ==
  LET medDigits == normalizeMedNdc(medNdcOriginal)
      medLen == Len(medDigits)
      lengthsAsc == SortAsc(DOMAIN openIdx.ndcByLength)
      forward == SelectSeq(lengthsAsc, LAMBDA L : IsForwardLength(L, medLen))
      reverse == SelectSeq(lengthsAsc, LAMBDA L : IsReverseLength(L, medLen))
      fwd == ForwardLengths([matches |-> <<>>, seen |-> {}], forward, 1, medDigits, openIdx)
  IN IF medDigits = <<>> THEN <<>>
     ELSE IF ForwardSuffices(fwd.matches) THEN fwd.matches
     ELSE ReverseLengths(fwd, reverse, 1, medDigits, openIdx).matches

(***************************************************************************)
(* Semantic filter and best-match selection of enrichMedicaidWithOpenFda   *)
(***************************************************************************)
SeqToSet(s) == {s[i] : i \in 1..Len(s)}

\* the predicate of matches.filter(m => ...) for one description
PassesSemanticFilter(m, descTokens) ==
  LET hasBrand == Len(normalizeWhitespaceLower(m.brandName)) > 0
      brandTokens == tokenizeWords(m.brandName)
      overlap == \E k \in 1..Len(brandTokens) : brandTokens[k] \in descTokens
  IN IF ~hasBrand THEN FALSE ELSE overlap

SemanticFilter(matches, ndc_description) ==
  SelectSeq(matches, LAMBDA m : PassesSemanticFilter(m, SeqToSet(tokenizeWords(ndc_description))))

VariantLength(m) == Len(m.normalizedProductNdc)

\* variant: Math.min in place of Math.max
MaxOfAsMin(S) == IF S = {} THEN 0 ELSE CHOOSE x \in S : \A y \in S : x <= y

\* Math.max(...lengths), 0 for no lengths
MaxOf(S) == IF S = {} THEN 0 ELSE CHOOSE x \in S : \A y \in S : y <= x

\* variant: the comparison keeps every length up to the maximum
IsBestLengthOrLess(m, maxLen) == VariantLength(m) <= maxLen

\* the predicate of the best-match filter
IsBestLength(m, maxLen) == VariantLength(m) = maxLen

MarkBest(m) == [bestMatch |-> TRUE] @@ m

KeepBestMatches(matches) ==
  IF Len(matches) > 0
  THEN LET lengths == {VariantLength(matches[k]) : k \in 1..Len(matches)} \ {0}
           maxLen == MaxOf(lengths)
           kept == SelectSeq(matches, LAMBDA m : IsBestLength(m, maxLen))
       IN [k \in 1..Len(kept) |-> MarkBest(kept[k])]
  ELSE matches

\* variant: the unmatched branch pushes the whole price entry
EnrichedRecordKeepAll(med, matches) ==
  IF Len(matches) > 0 THEN [fdaMatches |-> matches] @@ med ELSE med

\* the record pushed to enriched for one price entry
EnrichedRecord(med, matches) ==
  IF Len(matches) > 0
  THEN [fdaMatches |-> matches] @@ med
  ELSE [ndc_description |-> med.ndc_description, ndc |-> med.ndc]

\* variant: the push of the unmatched branch is missing
PushEnrichedMatchedOnly(arr, med, matches) ==
  IF Len(matches) > 0 THEN Append(arr, EnrichedRecord(med, matches)) ELSE arr

\* enriched.push(...) of either branch
PushEnriched(arr, med, matches) == Append(arr, EnrichedRecord(med, matches))

(***************************************************************************)
(* buildMedicaidUnique                                                     *)
(***************************************************************************)
undefined == "undefined"

\* record[...] || undefined
OrUndefined(x) == IF x = "" THEN undefined ELSE x

\* `${desc}||${ndc}`
DedupKey(record) == record.desc \o <<"|", "|">> \o record.ndc

MedOfRow(record) ==
  [ndc_description |-> record.desc,
   ndc |-> record.ndc,
   nadac_per_unit |-> OrUndefined(record.price),
   pricing_unit |-> OrUndefined(record.unit),
   otc |-> OrUndefined(record.otc),
   classification_for_rate_setting |-> OrUndefined(record.cls)]

RECURSIVE DedupRows(_, _, _, _)
\* while ((record = parserStream.read()) !== null) {...}
DedupRows(rows, k, seen, unique) ==
  IF k > Len(rows) THEN unique
  ELSE IF DedupKey(rows[k]) \in seen
       THEN DedupRows(rows, k + 1, seen, unique)
       ELSE DedupRows(rows, k + 1, seen \cup {DedupKey(rows[k])},
                      Append(unique, MedOfRow(rows[k])))

(***************************************************************************)
(* Output files of enrichMedicaidWithOpenFda and main                      *)
(***************************************************************************)
\* a final path holds the artifact of an earlier run, nothing, or what this
\* run wrote
OldFile == [run |-> "old", content |-> <<>>]

NoFile == [run |-> "none", content |-> <<>>]

NewFile(content) == [run |-> "new", content |-> content]

\* the keys of a price entry that buildMedicaidUnique may set to undefined
OptionalKeys == {"nadac_per_unit", "pricing_unit", "otc", "classification_for_rate_setting"}

\* JSON.stringify of one object: keys whose value is undefined are left out
JsonOf(rec) ==
  [f \in {g \in DOMAIN rec : g \in OptionalKeys => rec[g] # undefined} |-> rec[f]]

\* JSON.stringify(enriched)
Stringify(arr) == [k \in 1..Len(arr) |-> JsonOf(arr[k])]

\* UTF-16 order of the characters in use
CharOrder ==
  <<"\t", "\n", " ", "-", "0", "1", "2", "3", "4", "5", "6", "7", "8", "9",
    "A", "B", "C", "D", "E", "F", "G", "H", "I", "J", "K", "L", "M",
    "N", "O", "P", "Q", "R", "S", "T", "U", "V", "W", "X", "Y", "Z",
    "a", "b", "c", "d", "e", "f", "g", "h", "i", "j", "k", "l", "m",
    "n", "o", "p", "q", "r", "s", "t", "u", "v", "w", "x", "y", "z", "|">>

CharCode(c) == CHOOSE i \in 1..Len(CharOrder) : CharOrder[i] = c

RECURSIVE StrLess(_, _)
\* the comparison of the default Array.prototype.sort
StrLess(a, b) ==
  IF b = <<>> THEN FALSE
  ELSE IF a = <<>> THEN TRUE
  ELSE IF Head(a) = Head(b) THEN StrLess(Tail(a), Tail(b))
  ELSE CharCode(Head(a)) < CharCode(Head(b))

RECURSIVE SortStrings(_)
SortStrings(S) ==
  IF S = {} THEN <<>>
  ELSE LET m == CHOOSE x \in S : \A y \in S : x = y \/ StrLess(x, y)
       IN <<m>> \o SortStrings(S \ {m})

\* variant: the filter(Boolean) is missing
KeepDescriptionAll(d) == TRUE

\* filter(Boolean)
KeepDescription(d) == d # <<>>

\* Array.from(new Set(enriched.map(r => r.ndc_description).filter(Boolean))).sort()
SearchDescriptions(arr) ==
  SortStrings({d \in {arr[k].ndc_description : k \in 1..Len(arr)} : KeepDescription(d)})

Min(a, b) == IF a <= b THEN a ELSE b

\* variant: the slice stops one record early
ChunkSliceShort(arr, i, size) == SubSeq(arr, i + 1, Min(i + size - 1, Len(arr)))

\* enriched.slice(i, i + chunkSize)
ChunkSlice(arr, i, size) == SubSeq(arr, i + 1, Min(i + size, Len(arr)))

\* `enriched-chunk-${chunksMeta.length + 1}.json`
ChunkName(n) == <<"enriched-chunk-">> \o ToDecimal(n) \o <<".json">>

ChunkMeta(fname, slice_) == [filename |-> fname, count |-> Len(slice_)]

\* variant: the number of chunks is computed by a rounded-down division
ManifestOfFloor(arr, size, meta) ==
  [total |-> Len(arr), chunkSize |-> size, numberOfChunks |-> Len(arr) \div size,
   chunks |-> meta]

ManifestOf(arr, size, meta) ==
  [total |-> Len(arr), chunkSize |-> size, numberOfChunks |-> Len(meta),
   chunks |-> meta]

\* (r.classification_for_rate_setting || '').toString()
ClassOf(r) ==
  IF "classification_for_rate_setting" \in DOMAIN r
     /\ r.classification_for_rate_setting # undefined
  THEN r.classification_for_rate_setting
  ELSE ""

RECURSIVE BuildDescClassMap(_, _, _)
\* for (const r of enriched) {...}: map is descClassMap
BuildDescClassMap(arr, k, map) ==
  IF k > Len(arr) THEN map
  ELSE LET d == arr[k].ndc_description
           c == ClassOf(arr[k])
       IN BuildDescClassMap(arr, k + 1,
            IF d # <<>> /\ c # "" /\ d \notin DOMAIN map
            THEN (d :> c) @@ map
            ELSE map)

\* variant: the index build is left one entry early
IndexBuiltOffByOne(pos, es) == pos >= Len(es) - 1

\* entries.forEach has run to its end
IndexBuilt(pos, es) == pos = Len(es)

(***************************************************************************)
(* Inputs: the contents of the two raw files, drawn from small pools.      *)
(***************************************************************************)
RefItem(ndc, brand, generic) ==
  [product_ndc |-> ndc, brand_name |-> brand, generic_name |-> generic]

RefPool ==
  { RefItem(<<"0", "-", "0", "1", "2", "1">>, <<"A", "b", "c">>, <<"g", "e", "n">>),
    RefItem(<<"1", "-", "2">>, <<"A", "B", " ", "c", "d", "e">>, <<>>),
    RefItem(<<"0", "0", "1", "2", "1", "2", "1", "2">>, <<" ">>, <<"g", "e", "n">>),
    RefItem(<<"x", "1", "-", "2", "1">>, <<"A", "b", "c", "-", "X", "y", "z">>, <<>>),
    RefItem(<<>>, <<"X", "y", "z">>, <<>>) }

Row(desc, ndc, price, cls) ==
  [desc |-> desc, ndc |-> ndc, price |-> price, unit |-> "EA", otc |-> "", cls |-> cls]

RowPool ==
  { Row(<<"A", "B", "C", " ", "T", "A", "B">>, <<"0", "0", "1", "2", "1">>, "1", "B"),
    Row(<<"X", "y", "z", " ", "a", "b">>, <<"0", "0", "1", "2", "1">>, "2", "G"),
    Row(<<"a", "b", "c">>, <<"2", "1">>, "3", "G"),
    Row(<<"C", "D", "E">>, <<"0", "1", "2", "1", "2", "1", "2">>, "", ""),
    Row(<<>>, <<"a", "b">>, "1", "G"),
    Row(<<"A", "B", "C", " ", "T", "A", "B">>, <<"0", "-", "1", "2", "1">>, "3", "G") }

\* the product code and price identifiers of the 00002-3231-30 scenario
ScenarioNdc == <<"0", "0", "0", "0", "2", "-", "3", "2", "3", "1", "-", "3", "0">>

ScenarioRefs == {RefItem(ScenarioNdc, <<"A", "b", "c">>, <<"g", "e", "n">>)}

ScenarioRows ==
  { Row(<<"A", "B", "C">>, <<"2", "3", "2", "3", "1">>, "1", "B"),
    Row(<<"A", "B", "C">>, <<"2", "3", "2", "3", "1", "3", "0">>, "2", "G"),
    Row(<<"X", "Y", "Z">>, <<"2", "3", "2", "3", "1">>, "3", "G"),
    Row(<<"A", "B", "C">>, <<"9", "9">>, "", "") }

\* rows whose description or identifier holds the separator of the
\* de-duplication key, and two rows that differ in the price only
DedupRowPool ==
  { Row(<<"a">>, <<"|", "|", "1">>, "1", "G"),
    Row(<<"a", "|", "|">>, <<"1">>, "2", "B"),
    Row(<<"a">>, <<"1">>, "3", "G"),
    Row(<<"a">>, <<"1">>, "4", "B") }

\* a short code and a longer code that contains it, under different names
SkewRefs ==
  { RefItem(<<"0", "-", "0", "1", "2", "1">>, <<"A", "b", "c">>, <<"g", "e", "n">>),
    RefItem(<<"0", "0", "1", "2", "1", "-", "3", "0">>, <<"X", "y", "z">>, <<>>) }

SkewRows ==
  { Row(<<"X", "Y", "Z", " ", "T", "A", "B">>, <<"0", "0", "1", "2", "1">>, "1", "G"),
    Row(<<"A", "B", "C", " ", "T", "A", "B">>, <<"0", "0", "1", "2", "1">>, "2", "B"),
    Row(<<"X", "Y", "Z", " ", "C", "A", "P">>, <<"1", "2", "1", "3">>, "3", "G") }

\* rows with pairwise distinct identifiers, for runs with many records
PartRefs == {RefItem(<<"1", "-", "2">>, <<"A", "B", " ", "c", "d", "e">>, <<>>)}

PartRowAt(k) == Row(<<"C", "D", "E">>, ToDecimal(k), "1", "G")

PartRowsUpTo(n) == [k \in 1..n |-> PartRowAt(k)]

SeqsUpTo(S, n) == UNION {[1..k -> S] : k \in 0..n}

(***************************************************************************)
(* The React app (App.js): pure parts of the component.                    *)
(***************************************************************************)
\* null, and a value that is not null
Null == <<>>

Some(x) == <<x>>

ToUpper(c) ==
  IF \E u \in DOMAIN UpperToLower : UpperToLower[u] = c
  THEN CHOOSE u \in DOMAIN UpperToLower : UpperToLower[u] = c
  ELSE c

toUpperCase(s) == [i \in 1..Len(s) |-> ToUpper(s[i])]

\* (rec[k] || ''), for a field that holds a string
StrField(rec, k) == IF k \in DOMAIN rec THEN rec[k] ELSE <<>>

\* Array.isArray(r.fdaMatches) ? r.fdaMatches : []
FdaMatchesOf(r) == IF "fdaMatches" \in DOMAIN r THEN r.fdaMatches ELSE <<>>

\* a || b, on strings
OrElse(a, b) == IF a # <<>> THEN a ELSE b

\* (descClassMap[desc] || '')
ClassLookup(map, desc) == IF desc \in DOMAIN map THEN map[desc] ELSE <<>>

\* (descClassMap[desc] || '').toUpperCase() === letter
ClassIs(map, desc, letter) == toUpperCase(ClassLookup(map, desc)) = letter

\* variant: the filter buttons have no effect on the list
PassesDrugFilterAlways(map, desc, filter) == TRUE

PassesDrugFilter(map, desc, filter) ==
  IF filter = "branded" THEN ClassIs(map, desc, <<"B">>)
  ELSE IF filter = "generic" THEN ClassIs(map, desc, <<"G">>)
  ELSE TRUE

\* suggestions.slice(0, 10)
LimitSuggestions(suggestions) ==
  SubSeq(suggestions, 1, Min(MaxSuggestions, Len(suggestions)))

\* !searchTerm || searchTerm.length < 2
TermTooShort(term) == term = <<>> \/ Len(term) < MinTermLen

\* the useMemo of filteredSuggestions, as a function of what it reads
FilteredSuggestions(term, loaded, index, filter, map) ==
  IF TermTooShort(term) \/ ~loaded THEN <<>>
  ELSE LET lower == toLowerCase(term)
           suggestions == SelectSeq(index.descriptions,
                                    LAMBDA desc : includes(toLowerCase(desc), lower))
           filtered == SelectSeq(suggestions,
                                 LAMBDA desc : PassesDrugFilter(map, desc, filter))
       IN LimitSuggestions(filtered)

\* the effect after filteredSuggestions: what setShowSuggestions is given
ShowAfterEffect(suggestions, term) == Len(suggestions) > 0 /\ Len(term) >= MinTermLen

\* getBestMatcherFromEnriched
getBestMatcherFromEnriched(med) ==
  IF Len(FdaMatchesOf(med)) = 0 THEN Null ELSE Some(FdaMatchesOf(med)[1])

HasFdaMatches(m) == Len(FdaMatchesOf(m)) > 0

\* variant: the first exact match is taken, with or without FDA data
PreferredFirst(exactMatches) == exactMatches[1]

\* exactMatches.find(m => ... m.fdaMatches.length > 0) || exactMatches[0]
Preferred(exactMatches) ==
  IF \E i \in 1..Len(exactMatches) : HasFdaMatches(exactMatches[i])
  THEN exactMatches[CHOOSE i \in 1..Len(exactMatches) :
                      /\ HasFdaMatches(exactMatches[i])
                      /\ \A j \in 1..(i - 1) : ~HasFdaMatches(exactMatches[j])]
  ELSE exactMatches[1]

\* med.ndc_description === description
IsExactMatch(med, description) == StrField(med, "ndc_description") = description

\* the keys added to searchKeys, both lowercased
SearchKeys(bestMatcher) ==
  IF bestMatcher = Null THEN {}
  ELSE {toLowerCase(k) : k \in {bestMatcher[1].genericName, bestMatcher[1].brandName} \ {<<>>}}

\* (bn && bn.includes(k)) || (gn && gn.includes(k))
NameHit(m, k) ==
  LET bn == toLowerCase(m.brandName)
      gn == toLowerCase(m.genericName)
  IN (bn # <<>> /\ includes(bn, k)) \/ (gn # <<>> /\ includes(gn, k))

\* the ok of the scan loop for one record
IsRelated(r, searchKeys) ==
  \E a \in 1..Len(FdaMatchesOf(r)) : \E k \in searchKeys :
    k # <<>> /\ NameHit(FdaMatchesOf(r)[a], k)

\* `${r.ndc}|${r.ndc_description}`
ScanKey(r) == StrField(r, "ndc") \o <<"|">> \o StrField(r, "ndc_description")

\* resolveLabeler
resolveLabeler(rec) ==
  LET fm == FdaMatchesOf(rec)
      best == IF Len(fm) > 0 THEN fm[1].labelerName ELSE <<>>
  IN trim(OrElse(StrField(rec, "fda_labeler_name"),
                 OrElse(StrField(rec, "__matchLabelerName"), best)))

\* `${desc.toLowerCase()}|${price}|${labeler.toLowerCase()}`
GenericKey(rec) ==
  toLowerCase(trim(StrField(rec, "ndc_description"))) \o <<"|">>
    \o trim(StrField(rec, "nadac_per_unit")) \o <<"|">>
    \o toLowerCase(resolveLabeler(rec))

RECURSIVE KeepFirstByKey(_, _, _, _, _)
\* for (const r of ...) { if (seen.has(key)) continue; seen.add(key); out.push(r); }
KeepFirstByKey(arr, keys, k, seen, out) ==
  IF k > Len(arr) THEN out
  ELSE IF keys[k] \in seen
       THEN KeepFirstByKey(arr, keys, k + 1, seen, out)
       ELSE KeepFirstByKey(arr, keys, k + 1, seen \cup {keys[k]}, Append(out, arr[k]))

\* variant: branded records stay in the list
IsBrandedNever(r) == FALSE

\* (r.classification_for_rate_setting || '').toUpperCase() === 'B'
IsBranded(r) == toUpperCase(StrField(r, "classification_for_rate_setting")) = <<"B">>

SameKey(rec, selectedKey) == GenericKey(rec) = selectedKey

\* sumFromMatcher and sumFromRecord; the field strength stands for the sum of
\* the numbers of the match's strengths
sumFromRecord(r) ==
  IF Len(FdaMatchesOf(r)) > 0 THEN FdaMatchesOf(r)[1].strength ELSE 0

AbsDiff(a, b) == IF a >= b THEN a - b ELSE b - a

RECURSIVE InsertByDiff(_, _, _)
\* s is sorted by diff; x goes after every element whose diff is not larger
InsertByDiff(s, x, base) ==
  IF s = <<>> THEN <<x>>
  ELSE IF AbsDiff(sumFromRecord(Head(s)), base) <= AbsDiff(sumFromRecord(x), base)
       THEN <<Head(s)>> \o InsertByDiff(Tail(s), x, base)
       ELSE <<x>> \o s

RECURSIVE SortByDiff(_, _, _, _)
\* scored.sort((a, b) => a.diff - b.diff), a stable sort
SortByDiff(arr, k, base, out) ==
  IF k > Len(arr) THEN out
  ELSE SortByDiff(arr, k + 1, base, InsertByDiff(out, arr[k], base))

\* for (const r of medicationsData): the array the callback closed over
ScanSource(dataRef, medicationsData) == medicationsData

\* handleMedicineSelect from "Find all medications with this exact
\* description" to its end: what setSelectedMedicine and setMatchedGenerics
\* are given. dataRef is the array searched, medicationsData the array the
\* callback closed over
SelectIn(description, dataRef, medicationsData) ==
  LET exactMatches == SelectSeq(dataRef, LAMBDA med : IsExactMatch(med, description))
  IN IF Len(exactMatches) = 0
     THEN [selectedMedicine |-> Null, matchedGenerics |-> <<>>]
     ELSE LET medicine == Preferred(exactMatches)
              bestMatcher == getBestMatcherFromEnriched(medicine)
              updatedMedicine == [medicine |-> medicine,
                                  bestMatcher |-> bestMatcher,
                                  allMatches |-> exactMatches]
              searchKeys == SearchKeys(bestMatcher)
              scanned == ScanSource(dataRef, medicationsData)
              related == SelectSeq(scanned, LAMBDA r : IsRelated(r, searchKeys))
              out == KeepFirstByKey(related, [i \in 1..Len(related) |-> ScanKey(related[i])],
                                    1, {}, <<>>)
              genericsOnly == SelectSeq(out, LAMBDA r : ~IsBranded(r))
              selectedKey == GenericKey(medicine)
              others == SelectSeq(genericsOnly, LAMBDA rec : ~SameKey(rec, selectedKey))
              unique == KeepFirstByKey(others, [i \in 1..Len(others) |-> GenericKey(others[i])],
                                       1, {}, <<>>)
              baseSum == sumFromRecord(medicine)
          IN [selectedMedicine |-> Some(updatedMedicine),
              matchedGenerics |-> SortByDiff(unique, 1, baseSum, <<>>)]

(***************************************************************************)
(* The files the app fetches.                                              *)
(***************************************************************************)
UiMatch(brand, generic, labeler, strength) ==
  [brandName |-> brand, genericName |-> generic, labelerName |-> labeler,
   strength |-> strength]

\* a matched record: the price entry and its matches
UiMatched(desc, ndc, price, cls, matches) ==
  [ndc_description |-> desc, ndc |-> ndc, nadac_per_unit |-> price,
   classification_for_rate_setting |-> cls, fdaMatches |-> matches]

\* an unmatched record: { ndc_description, ndc }
UiUnmatched(desc, ndc) == [ndc_description |-> desc, ndc |-> ndc]

DescAbcTab == <<"A", "B", "C", " ", "T", "A", "B">>

DescGenTab == <<"G", "E", "N", " ", "T", "A", "B">>

DescGenCap == <<"G", "E", "N", " ", "C", "A", "P">>

DescXyzCap == <<"X", "Y", "Z", " ", "C", "A", "P">>

\* descriptions of the search index that no chunk holds
DescExtra(k) == <<"A", "B", "D">> \o (IF k < 10 THEN <<"0">> ELSE <<>>) \o ToDecimal(k)

RecAbcUnmatched == UiUnmatched(DescAbcTab, <<"1">>)

RecAbc ==
  UiMatched(DescAbcTab, <<"2">>, <<"5">>, <<"B">>,
            <<UiMatch(<<"A", "b", "c">>, <<"g", "e", "n", " ", "p", "l", "u", "s">>, <<"L", "1">>, 20),
              UiMatch(<<"A", "b", "c">>, <<"o", "t", "h", "e", "r">>, <<"L", "9">>, 5)>>)

RecGenOne ==
  UiMatched(DescGenTab, <<"3">>, <<"2">>, <<"G">>, <<UiMatch(<<"Z", "e", "d">>, <<"G", "e", "n", " ", "P", "l", "u", "s">>, <<"L", "2">>, 10)>>)

\* same description, price and labeler as RecGenOne
RecGenTwo ==
  UiMatched(DescGenTab, <<"4">>, <<"2">>, <<"G">>, <<UiMatch(<<"Z", "e", "d">>, <<"G", "e", "n", " ", "P", "l", "u", "s">>, <<"l", "2", " ">>, 10)>>)

RecGenCap ==
  UiMatched(DescGenCap, <<"5">>, <<"3">>, <<"g">>,
            <<UiMatch(<<>>, <<"G", "E", "N", " ", "P", "L", "U", "S", " ", "f", "o", "r", "t", "e">>, <<"L", "3">>, 20)>>)

RecXyz == UiUnmatched(DescXyzCap, <<"7">>)

ServerChunks ==
  <<  <<RecAbcUnmatched, RecAbc, RecGenOne>>,
      <<RecGenTwo, RecGenCap, RecXyz>>  >>

RECURSIVE Flat(_)
\* Array.prototype.flat
Flat(arrays) == IF arrays = <<>> THEN <<>> ELSE Head(arrays) \o Flat(Tail(arrays))

ServerManifest ==
  ManifestOf(Flat(ServerChunks), Len(ServerChunks[1]),
             [k \in 1..Len(ServerChunks) |-> ChunkMeta(ChunkName(k), ServerChunks[k])])

ChunkFileNames == {ServerManifest.chunks[k].filename : k \in 1..Len(ServerManifest.chunks)}

\* the content of a chunk file
ServerChunk(filename) ==
  ServerChunks[CHOOSE k \in 1..Len(ServerChunks) : ChunkName(k) = filename]

\* search-index-enriched.json: sorted, more than MaxSuggestions entries hold "AB"
ServerIndex ==
  [descriptions |->
     <<DescAbcTab>> \o [k \in 1..(MaxSuggestions + 1) |-> DescExtra(k)]
       \o <<DescGenCap, DescGenTab, DescXyzCap>>]

\* description-classification.json; the class is copied from the CSV as it is
\* written there
ServerClassMap ==
  (DescAbcTab :> <<"B">>) @@ (DescGenTab :> <<"G">>) @@ (DescGenCap :> <<"g">>)
    @@ (DescExtra(1) :> <<"B">>) @@ (DescExtra(2) :> <<"G">>) @@ (DescExtra(3) :> <<"b">>)

\* what the user types
TermPool == {<<>>, <<"a">>, <<"a", "b">>, <<"G", "e">>}

\* the suggestions the user clicks on
ClickPool == {DescAbcTab, DescGenTab, DescXyzCap, DescExtra(1)}

(***************************************************************************)
(* State of one run of main.                                               *)
(***************************************************************************)
VARIABLES
  pc,          \* position of main
  openFdaArr,  \* items of the openFDA file
  csvRows,     \* rows of the Medicaid CSV
  entries,     \* openIdx.entries
  ndcByLength, \* openIdx.ndcByLength
  buildPos,    \* number of entries the forEach of buildOpenFdaIndexes has handled
  medUnique,   \* result of buildMedicaidUnique
  medPos,      \* number of price entries the loop of enrichMedicaidWithOpenFda has handled
  candidates,  \* per handled price entry, the value of matches before the filter
  enriched,    \* the enriched array
  chunkSize,   \* the chunkSize of main (4000 in the source), scaled to 1..MaxChunkSize
  chunkPos,    \* the i of the chunk loop
  chunksMeta,  \* the chunksMeta array
  fileEnriched,    \* what OUT_ENRICHED_PUBLIC holds
  fileSearchIndex, \* what OUT_SEARCH_INDEX_PUBLIC holds
  chunkFiles,      \* the chunk files of ENRICHED_CHUNKS_DIR, by filename
  fileManifest,    \* what chunks-manifest.json of ENRICHED_CHUNKS_DIR holds
  fileDescClass,   \* what DESC_CLASS_MAP_PATH holds
  run,         \* 1 in the first run of the script, 2 when it is run again
  firstRun     \* the files the first run left, once the script is run again

indexVars == <<openFdaArr, entries, ndcByLength, buildPos>>

medVars == <<csvRows, medUnique, medPos, candidates, enriched>>

chunkVars == <<chunkSize, chunkPos, chunksMeta>>

fileVars == <<fileEnriched, fileSearchIndex, chunkFiles, fileManifest, fileDescClass>>

(***************************************************************************)
(* State of the mounted App component.                                     *)
(***************************************************************************)
VARIABLES
  searchTerm,        \* useState('')
  selectedMedicine,  \* useState(null)
  showSuggestions,   \* useState(false)
  matchedGenerics,   \* useState([])
  loading,           \* useState(false)
  drugFilter,        \* useState('all')
  medicationsData,   \* useState([])
  enrichedManifest,  \* useState(null)
  descClassMap,      \* useState({})
  chunkCache,        \* chunkCacheRef.current: filename -> array
  searchIndex,       \* useState({ descriptions: [] })
  dataLoaded,        \* useState(false)
  cbManifest,        \* the enrichedManifest the current handleMedicineSelect closed over
  uiPc,              \* position of loadData
  startupFailure,    \* the startup file whose load failed, "none" if none did
  prefetch,          \* the chunk requests of the startup Promise.all, in manifest order
  calls,             \* the handleMedicineSelect calls awaiting a chunk
  timers,            \* the setTimeout callbacks of handleSuggestionClick not yet run
  nSelect,           \* number of handleMedicineSelect calls and timers started so far
  fetches,           \* per chunk file: requests started and requests answered with the file
  lastRequested,     \* description of the latest handleMedicineSelect call
  lastDone           \* the latest handleMedicineSelect call that ran to its end

uiVars == <<searchTerm, selectedMedicine, showSuggestions, matchedGenerics, loading,
            drugFilter, medicationsData, enrichedManifest, descClassMap, chunkCache,
            searchIndex, dataLoaded, cbManifest, uiPc, startupFailure, prefetch,
            calls, timers, nSelect, fetches, lastRequested, lastDone>>

\* the component before its first effect has run
UiMounted ==
  /\ searchTerm = <<>>
  /\ selectedMedicine = Null
  /\ showSuggestions = FALSE
  /\ matchedGenerics = <<>>
  /\ loading = FALSE
  /\ drugFilter = "all"
  /\ medicationsData = <<>>
  /\ enrichedManifest = Null
  /\ descClassMap = <<>>
  /\ chunkCache = <<>>
  /\ searchIndex = [descriptions |-> <<>>]
  /\ dataLoaded = FALSE
  /\ cbManifest = Null
  /\ uiPc = "mount"
  /\ startupFailure = "none"
  /\ prefetch = <<>>
  /\ calls = <<>>
  /\ timers = <<>>
  /\ nSelect = 0
  /\ fetches = [f \in ChunkFileNames |-> [started |-> 0, ok |-> 0]]
  /\ lastRequested = <<>>
  /\ lastDone = Null

runVars == <<run, firstRun>>

vars == <<pc, openFdaArr, csvRows, entries, ndcByLength, buildPos, medUnique,
          medPos, candidates, enriched, chunkSize, chunkPos, chunksMeta,
          fileEnriched, fileSearchIndex, chunkFiles, fileManifest, fileDescClass,
          run, firstRun, uiVars>>

\* the variables of the run of main
mainVars == <<pc, indexVars, medVars, chunkVars, fileVars, runVars>>

\* the state at the start of main, for given contents of the two raw files;
\* public/data holds the artifacts of an earlier run
InitWith(refs, rows) ==
  /\ pc = "start"
  /\ openFdaArr = refs
  /\ csvRows = rows
  /\ entries = <<>>
  /\ ndcByLength = <<>>
  /\ buildPos = 0
  /\ medUnique = <<>>
  /\ medPos = 0
  /\ candidates = <<>>
  /\ enriched = <<>>
  /\ chunkSize = 0
  /\ chunkPos = 0
  /\ chunksMeta = <<>>
  /\ fileEnriched = OldFile
  /\ fileSearchIndex = OldFile
  /\ chunkFiles = [run |-> "old", files |-> <<>>]
  /\ fileManifest = OldFile
  /\ fileDescClass = OldFile
  /\ run = 1
  /\ firstRun = <<>>
  /\ UiMounted

Init ==
  \E refs \in SeqsUpTo(RefPool, MaxRef), rows \in SeqsUpTo(RowPool, MaxRows) :
    InitWith(refs, rows)

\* buildOpenFdaIndex: read the file, map the items to entries
BuildEntries ==
  /\ pc = "start"
  /\ entries' = [k \in 1..Len(openFdaArr) |-> MakeEntry(openFdaArr[k])]
  /\ pc' = "index"
  /\ UNCHANGED <<openFdaArr, csvRows, ndcByLength, buildPos, medUnique, medPos,
                 candidates, enriched, chunkVars, fileVars>>
  /\ UNCHANGED runVars
  /\ UNCHANGED uiVars

\* one iteration of entries.forEach
IndexNextEntry ==
  /\ pc = "index"
  /\ buildPos < Len(entries)
  /\ ndcByLength' = IndexEntry(ndcByLength, entries[buildPos + 1], buildPos)
  /\ buildPos' = buildPos + 1
  /\ UNCHANGED <<pc, openFdaArr, csvRows, entries, medUnique, medPos, candidates, enriched,
                 chunkVars, fileVars>>
  /\ UNCHANGED runVars
  /\ UNCHANGED uiVars

\* buildOpenFdaIndexes returns; main goes on to buildMedicaidUnique
BuildMedicaidUnique ==
  /\ pc = "index"
  /\ IndexBuilt(buildPos, entries)
  /\ medUnique' = DedupRows(csvRows, 1, {}, <<>>)
  /\ pc' = "enrich"
  /\ UNCHANGED <<openFdaArr, csvRows, entries, ndcByLength, buildPos, medPos,
                 candidates, enriched, chunkVars, fileVars>>
  /\ UNCHANGED runVars
  /\ UNCHANGED uiVars

\* one iteration of for (const med of uniqueMed)
EnrichNextMed ==
  /\ pc = "enrich"
  /\ medPos < Len(medUnique)
  /\ LET med == medUnique[medPos + 1]
         matches == collectOpenFdaNdcMatches(med.ndc,
                       [entries |-> entries, ndcByLength |-> ndcByLength])
         best == KeepBestMatches(SemanticFilter(matches, med.ndc_description))
     IN /\ candidates' = Append(candidates, matches)
        /\ enriched' = PushEnriched(enriched, med, best)
  /\ medPos' = medPos + 1
  /\ UNCHANGED <<pc, openFdaArr, csvRows, entries, ndcByLength, buildPos, medUnique,
                 chunkVars, fileVars>>
  /\ UNCHANGED runVars
  /\ UNCHANGED uiVars

\* the loop is over: the outputs of enrichMedicaidWithOpenFda are written next
EnrichDone ==
  /\ pc = "enrich"
  /\ medPos = Len(medUnique)
  /\ pc' = "writeEnriched"
  /\ UNCHANGED <<openFdaArr, csvRows, entries, ndcByLength, buildPos, medUnique,
                 medPos, candidates, enriched, chunkVars, fileVars>>
  /\ UNCHANGED runVars
  /\ UNCHANGED uiVars

\* fs.writeFileSync(OUT_ENRICHED_PUBLIC, JSON.stringify(enriched))
WriteEnriched ==
  /\ pc = "writeEnriched"
  /\ fileEnriched' = NewFile(Stringify(enriched))
  /\ pc' = "writeSearchIndex"
  /\ UNCHANGED <<indexVars, medVars, chunkVars, fileSearchIndex, chunkFiles,
                 fileManifest, fileDescClass>>
  /\ UNCHANGED runVars
  /\ UNCHANGED uiVars

\* the search index is written; enrichMedicaidWithOpenFda returns { enriched }
WriteSearchIndex ==
  /\ pc = "writeSearchIndex"
  /\ fileSearchIndex' = NewFile([descriptions |-> SearchDescriptions(enriched)])
  /\ pc' = "chunks"
  /\ UNCHANGED <<indexVars, medVars, chunkVars, fileEnriched, chunkFiles,
                 fileManifest, fileDescClass>>
  /\ UNCHANGED runVars
  /\ UNCHANGED uiVars

\* const chunkSize: one value per build of the script, the same in every run of it
ChunkSizes == IF run = 1 THEN 1..MaxChunkSize ELSE {chunkSize}

\* the chunk directory is removed and made anew; chunkSize and chunksMeta are set
StartChunks ==
  /\ pc = "chunks"
  /\ chunkFiles' = [run |-> "new", files |-> <<>>]
  /\ fileManifest' = NoFile
  /\ \E size \in ChunkSizes : chunkSize' = size
  /\ chunkPos' = 0
  /\ chunksMeta' = <<>>
  /\ pc' = "chunkLoop"
  /\ UNCHANGED <<indexVars, medVars, fileEnriched, fileSearchIndex, fileDescClass>>
  /\ UNCHANGED runVars
  /\ UNCHANGED uiVars

\* one iteration of for (let i = 0; i < enriched.length; i += chunkSize)
WriteChunk ==
  /\ pc = "chunkLoop"
  /\ chunkPos < Len(enriched)
  /\ LET slice_ == ChunkSlice(enriched, chunkPos, chunkSize)
         fname == ChunkName(Len(chunksMeta) + 1)
     IN /\ chunkFiles' = [chunkFiles EXCEPT !.files = (fname :> Stringify(slice_)) @@ @]
        /\ chunksMeta' = Append(chunksMeta, ChunkMeta(fname, slice_))
  /\ chunkPos' = chunkPos + chunkSize
  /\ UNCHANGED <<pc, indexVars, medVars, chunkSize, fileEnriched, fileSearchIndex,
                 fileManifest, fileDescClass>>
  /\ UNCHANGED runVars
  /\ UNCHANGED uiVars

\* variant: the manifest also records which run wrote it
ManifestContentStamped ==
  [run |-> run] @@ ManifestOf(enriched, chunkSize, chunksMeta)

ManifestContent == ManifestOf(enriched, chunkSize, chunksMeta)

\* the chunk loop is over: the manifest is written
WriteManifest ==
  /\ pc = "chunkLoop"
  /\ ~(chunkPos < Len(enriched))
  /\ fileManifest' = NewFile(ManifestContent)
  /\ pc' = "descClass"
  /\ UNCHANGED <<indexVars, medVars, chunkVars, fileEnriched, fileSearchIndex,
                 chunkFiles, fileDescClass>>
  /\ UNCHANGED runVars
  /\ UNCHANGED uiVars

\* descClassMap is built and written; main returns
WriteDescClassMap ==
  /\ pc = "descClass"
  /\ fileDescClass' = NewFile(BuildDescClassMap(enriched, 1, <<>>))
  /\ pc' = "done"
  /\ UNCHANGED <<indexVars, medVars, chunkVars, fileEnriched, fileSearchIndex,
                 chunkFiles, fileManifest>>
  /\ UNCHANGED runVars
  /\ UNCHANGED uiVars

\* a file system call of the step at hand throws: the error is caught (by
\* the try of main or by main().catch) and the process exits with status 1
WriteFails ==
  /\ pc \in {"writeEnriched", "writeSearchIndex", "chunks", "chunkLoop", "descClass"}
  /\ pc' = "exit1"
  /\ UNCHANGED <<indexVars, medVars, chunkVars, fileVars>>
  /\ UNCHANGED runVars
  /\ UNCHANGED uiVars

Next ==
  \/ BuildEntries
  \/ IndexNextEntry
  \/ BuildMedicaidUnique
  \/ EnrichNextMed
  \/ EnrichDone
  \/ WriteEnriched
  \/ WriteSearchIndex
  \/ StartChunks
  \/ WriteChunk
  \/ WriteManifest
  \/ WriteDescClassMap
  \/ WriteFails

Spec == Init /\ [][Next]_vars

\* the script is started again on the same two raw files, after a run that
\* went through; public/data holds what that run wrote
RunAgain ==
  /\ pc = "done"
  /\ run = 1
  /\ run' = 2
  /\ firstRun' = <<fileEnriched, fileSearchIndex, chunkFiles, fileManifest, fileDescClass>>
  /\ pc' = "start"
  /\ entries' = <<>>
  /\ ndcByLength' = <<>>
  /\ buildPos' = 0
  /\ medUnique' = <<>>
  /\ medPos' = 0
  /\ candidates' = <<>>
  /\ enriched' = <<>>
  /\ chunkPos' = 0
  /\ chunksMeta' = <<>>
  /\ fileEnriched' = OldFile
  /\ fileSearchIndex' = OldFile
  /\ chunkFiles' = [run |-> "old", files |-> <<>>]
  /\ fileManifest' = OldFile
  /\ fileDescClass' = OldFile
  /\ UNCHANGED <<openFdaArr, csvRows, chunkSize>>
  /\ UNCHANGED uiVars

NextTwice ==
  \/ Next
  \/ RunAgain

SpecTwice == Init /\ [][NextTwice]_vars

\* runs on the 00002-3231-30 scenario: the reference file holds that one code
InitScenario ==
  \E refs \in {r \in SeqsUpTo(ScenarioRefs, 1) : Len(r) = 1},
     rows \in SeqsUpTo(ScenarioRows, MaxRows) :
    InitWith(refs, rows)

SpecScenario == InitScenario /\ [][Next]_vars

\* runs with up to MaxPartRows price entries, for the chunk loop
InitPartition ==
  \E refs \in SeqsUpTo(PartRefs, 1), n \in 0..MaxPartRows :
    InitWith(refs, PartRowsUpTo(n))

SpecPartition == InitPartition /\ [][Next]_vars

InitDedup ==
  \E refs \in SeqsUpTo(PartRefs, 1), rows \in SeqsUpTo(DedupRowPool, MaxRows) :
    InitWith(refs, rows)

SpecDedup == InitDedup /\ [][Next]_vars

InitSkew ==
  \E refs \in SeqsUpTo(SkewRefs, MaxRef), rows \in SeqsUpTo(SkewRows, MaxRows) :
    InitWith(refs, rows)

SpecSkew == InitSkew /\ [][Next]_vars

(***************************************************************************)
(* The App component: loadData, the input handlers, handleMedicineSelect.  *)
(***************************************************************************)
inputVars == <<searchTerm, showSuggestions, drugFilter>>

loadVars == <<enrichedManifest, descClassMap, searchIndex, dataLoaded, uiPc,
              startupFailure, prefetch>>

selectVars == <<selectedMedicine, matchedGenerics, loading, medicationsData,
                cbManifest, calls, lastRequested, lastDone>>

\* filteredSuggestions of the current render
CurrentSuggestions ==
  FilteredSuggestions(searchTerm, dataLoaded, searchIndex, drugFilter, descClassMap)

\* filteredSuggestions of the render after the term and the filter are set
SuggestionsFor(term, filter) ==
  FilteredSuggestions(term, dataLoaded, searchIndex, filter, descClassMap)

StartFetch(log, file) == [log EXCEPT ![file].started = @ + 1]

FetchOk(log, file) == [log EXCEPT ![file].ok = @ + 1]

\* const cached = chunkCacheRef.current.get(ch.filename); if (cached) ...
IsCached(cache, file) == file \in DOMAIN cache

RECURSIVE LoopFrom(_, _, _, _)
\* for (const ch of enrichedManifest.chunks), from chunk p on, up to the
\* first chunk that has to be fetched: cached chunks are pushed to all
LoopFrom(chunks, p, all, cache) ==
  IF p > Len(chunks) THEN [pos |-> p, all |-> all]
  ELSE IF IsCached(cache, chunks[p].filename)
       THEN LoopFrom(chunks, p + 1, all \o cache[chunks[p].filename], cache)
       ELSE [pos |-> p, all |-> all]

\* useEffect(() => loadData(), []) up to the first await
LoadStart ==
  /\ uiPc = "mount"
  /\ loading' = TRUE
  /\ uiPc' = "startup"
  /\ UNCHANGED <<mainVars, inputVars, selectedMedicine, matchedGenerics,
                 medicationsData, enrichedManifest, descClassMap, chunkCache,
                 searchIndex, dataLoaded, cbManifest, startupFailure, prefetch,
                 calls, timers, nSelect, fetches, lastRequested, lastDone>>

\* the three startup files arrive and parse: the states are set and the
\* chunks of the manifest are requested in parallel
StartupLoaded ==
  /\ uiPc = "startup"
  /\ enrichedManifest' = Some(ServerManifest)
  /\ searchIndex' = ServerIndex
  /\ descClassMap' = ServerClassMap
  /\ LET chunks == ServerManifest.chunks
     IN /\ prefetch' = [k \in 1..Len(chunks) |->
                          IF IsCached(chunkCache, chunks[k].filename)
                          THEN [state |-> "done", arr |-> chunkCache[chunks[k].filename]]
                          ELSE [state |-> "pending", arr |-> <<>>]]
        /\ fetches' = [f \in DOMAIN fetches |->
                         IF IsCached(chunkCache, f) THEN fetches[f]
                         ELSE [fetches[f] EXCEPT !.started = @ + 1]]
  /\ uiPc' = "prefetch"
  /\ UNCHANGED <<mainVars, inputVars, selectedMedicine, matchedGenerics, loading,
                 medicationsData, chunkCache, dataLoaded, cbManifest,
                 startupFailure, calls, timers, nSelect, lastRequested, lastDone>>

\* variant: the catch leaves dataLoaded as it is
LoadedAfterFailureKept == dataLoaded

\* setDataLoaded(true) of the catch
LoadedAfterFailure == TRUE

\* a startup file fails to load (the request or the parse rejects): the catch of loadData
StartupFails ==
  /\ uiPc = "startup"
  /\ \E file \in {"manifest", "index", "classMap"} : startupFailure' = file
  /\ loading' = FALSE
  /\ medicationsData' = <<>>
  /\ searchIndex' = [descriptions |-> <<>>]
  /\ dataLoaded' = LoadedAfterFailure
  /\ cbManifest' = enrichedManifest
  /\ uiPc' = "ready"
  /\ UNCHANGED <<mainVars, inputVars, selectedMedicine, matchedGenerics,
                 enrichedManifest, descClassMap, chunkCache, prefetch, calls,
                 timers, nSelect, fetches, lastRequested, lastDone>>

\* one chunk request of the prefetch is answered, with the file or with an error
PrefetchResolves(k) ==
  /\ uiPc = "prefetch"
  /\ k \in 1..Len(prefetch)
  /\ prefetch[k].state = "pending"
  /\ LET file == enrichedManifest[1].chunks[k].filename
     IN \/ /\ chunkCache' = (file :> ServerChunk(file)) @@ chunkCache
           /\ prefetch' = [prefetch EXCEPT ![k] = [state |-> "done", arr |-> ServerChunk(file)]]
           /\ fetches' = FetchOk(fetches, file)
        \/ /\ prefetch' = [prefetch EXCEPT ![k] = [state |-> "done", arr |-> <<>>]]
           /\ UNCHANGED <<chunkCache, fetches>>
  /\ UNCHANGED <<mainVars, inputVars, selectVars, enrichedManifest, descClassMap,
                 searchIndex, dataLoaded, uiPc, startupFailure, timers, nSelect>>

\* the Promise.all of the prefetch is settled: loadData runs to its end
PrefetchDone ==
  /\ uiPc = "prefetch"
  /\ \A k \in 1..Len(prefetch) : prefetch[k].state = "done"
  /\ medicationsData' = Flat([k \in 1..Len(prefetch) |-> prefetch[k].arr])
  /\ cbManifest' = enrichedManifest
  /\ dataLoaded' = TRUE
  /\ loading' = FALSE
  /\ showSuggestions' = ShowAfterEffect(FilteredSuggestions(searchTerm, TRUE, searchIndex, drugFilter,
                                              descClassMap), searchTerm)
  /\ uiPc' = "ready"
  /\ UNCHANGED <<mainVars, searchTerm, drugFilter, selectedMedicine, matchedGenerics,
                 enrichedManifest, descClassMap, chunkCache, searchIndex,
                 startupFailure, prefetch, calls, timers, nSelect, fetches,
                 lastRequested, lastDone>>

\* onChange of the input, and the effect that follows the render
TypeTerm ==
  /\ dataLoaded
  /\ \E term \in TermPool :
       /\ searchTerm' = term
       /\ showSuggestions' =
            IF term # searchTerm
            THEN ShowAfterEffect(SuggestionsFor(term, drugFilter), term)
            ELSE showSuggestions
  /\ UNCHANGED <<mainVars, drugFilter, loadVars, selectVars, chunkCache, timers,
                 nSelect, fetches>>

\* onClick of a filter button, and the effect that follows the render
SetDrugFilter ==
  /\ dataLoaded
  /\ \E filter \in {"all", "branded", "generic"} :
       /\ drugFilter' = filter
       /\ showSuggestions' =
            IF filter # drugFilter
            THEN ShowAfterEffect(SuggestionsFor(searchTerm, filter), searchTerm)
            ELSE showSuggestions
  /\ UNCHANGED <<mainVars, searchTerm, loadVars, selectVars, chunkCache, timers,
                 nSelect, fetches>>

\* onFocus of the input
FocusInput ==
  /\ dataLoaded
  /\ showSuggestions' = (Len(CurrentSuggestions) > 0)
  /\ UNCHANGED <<mainVars, searchTerm, drugFilter, loadVars, selectVars, chunkCache,
                 timers, nSelect, fetches>>

\* what the end of handleMedicineSelect sets, for a call whose callback closed
\* over cbData; onDemand tells whether the call loaded the chunks itself
Finish(description, dataRef, cbData, onDemand) ==
  LET result == SelectIn(description, dataRef, cbData)
  IN /\ medicationsData' = IF onDemand THEN dataRef ELSE medicationsData
     /\ cbManifest' = IF onDemand THEN enrichedManifest ELSE cbManifest
     /\ selectedMedicine' = result.selectedMedicine
     /\ matchedGenerics' = result.matchedGenerics
     /\ loading' = FALSE
     /\ lastDone' = Some([description |-> description, dataRef |-> dataRef,
                          scanned |-> ScanSource(dataRef, cbData), onDemand |-> onDemand])

\* handleMedicineSelect(description) of the callback that closed over cbData
\* and cbMan, up to its first await or, when nothing is awaited, to its end
Select(description, cbData, cbMan) ==
  LET onDemand == cbMan # Null /\ cbData = <<>>
      chunks == IF onDemand THEN cbMan[1].chunks ELSE <<>>
      st == LoopFrom(chunks, 1, <<>>, chunkCache)
      awaits == st.pos <= Len(chunks)
      rerun == description # searchTerm \/ (onDemand /\ ~awaits)
  IN /\ searchTerm' = description
     /\ lastRequested' = description
     /\ showSuggestions' =
          IF rerun
          THEN ShowAfterEffect(SuggestionsFor(description, drugFilter), description)
          ELSE FALSE
     /\ IF awaits
        THEN /\ loading' = TRUE
             /\ calls' = Append(calls, [description |-> description, chunks |-> chunks,
                                         pos |-> st.pos, all |-> st.all, data |-> cbData])
             /\ fetches' = StartFetch(fetches, chunks[st.pos].filename)
             /\ UNCHANGED <<medicationsData, cbManifest, selectedMedicine,
                            matchedGenerics, lastDone>>
        ELSE /\ Finish(description, IF onDemand THEN st.all ELSE cbData, cbData, onDemand)
             /\ UNCHANGED <<calls, fetches>>

\* handleSearch: Enter in the input, or the Search button
Search ==
  /\ dataLoaded
  /\ trim(searchTerm) # <<>>
  /\ nSelect < MaxSelections
  /\ nSelect' = nSelect + 1
  /\ Select(searchTerm, medicationsData, cbManifest)
  /\ UNCHANGED <<mainVars, drugFilter, loadVars, chunkCache, timers>>

\* handleSuggestionClick: the term is set, the dropdown closed, and
\* handleMedicineSelect of this render is scheduled
SuggestionClick ==
  /\ dataLoaded
  /\ showSuggestions
  /\ nSelect < MaxSelections
  /\ \E suggestion \in SeqToSet(CurrentSuggestions) \cap ClickPool :
       /\ searchTerm' = suggestion
       /\ showSuggestions' =
            IF suggestion # searchTerm
            THEN ShowAfterEffect(SuggestionsFor(suggestion, drugFilter), suggestion)
            ELSE FALSE
       /\ timers' = Append(timers, [description |-> suggestion,
                                    data |-> medicationsData, manifest |-> cbManifest])
  /\ nSelect' = nSelect + 1
  /\ UNCHANGED <<mainVars, drugFilter, loadVars, selectVars, chunkCache, fetches>>

\* the setTimeout callback of handleSuggestionClick runs
TimerFires ==
  /\ timers # <<>>
  /\ timers' = Tail(timers)
  /\ Select(Head(timers).description, Head(timers).data, Head(timers).manifest)
  /\ UNCHANGED <<mainVars, drugFilter, loadVars, chunkCache, nSelect>>

\* the chunk request of call i is answered, with the file or with an error:
\* the loop goes on to the next chunk to fetch or the call runs to its end
FetchResolves(i) ==
  /\ i \in 1..Len(calls)
  /\ \E ok \in BOOLEAN :
       LET c == calls[i]
           file == c.chunks[c.pos].filename
           cache == IF ok THEN (file :> ServerChunk(file)) @@ chunkCache ELSE chunkCache
           all == IF ok THEN c.all \o ServerChunk(file) ELSE c.all
           st == LoopFrom(c.chunks, c.pos + 1, all, cache)
           log == IF ok THEN FetchOk(fetches, file) ELSE fetches
           others == [k \in 1..(Len(calls) - 1) |-> IF k < i THEN calls[k] ELSE calls[k + 1]]
       IN /\ chunkCache' = cache
          /\ IF st.pos <= Len(c.chunks)
             THEN /\ calls' = [calls EXCEPT ![i] = [c EXCEPT !.pos = st.pos, !.all = st.all]]
                  /\ fetches' = StartFetch(log, c.chunks[st.pos].filename)
                  /\ UNCHANGED <<showSuggestions, medicationsData, cbManifest,
                                 selectedMedicine, matchedGenerics, loading, lastDone>>
             ELSE /\ calls' = others
                  /\ fetches' = log
                  /\ Finish(c.description, st.all, c.data, TRUE)
                  /\ showSuggestions' =
                       ShowAfterEffect(SuggestionsFor(searchTerm, drugFilter), searchTerm)
  /\ UNCHANGED <<mainVars, searchTerm, drugFilter, loadVars, timers, nSelect,
                 lastRequested>>

NextUI ==
  \/ LoadStart
  \/ StartupLoaded
  \/ StartupFails
  \/ \E k \in 1..Len(ServerChunks) : PrefetchResolves(k)
  \/ PrefetchDone
  \/ TypeTerm
  \/ SetDrugFilter
  \/ FocusInput
  \/ Search
  \/ SuggestionClick
  \/ TimerFires
  \/ \E i \in 1..MaxSelections : FetchResolves(i)

InitUI == InitWith(<<>>, <<>>)

SpecUI == InitUI /\ [][NextUI]_vars

\* every request is answered in the end, and a settled promise runs its continuation
SpecUILive ==
  /\ SpecUI
  /\ WF_vars(LoadStart)
  /\ WF_vars(StartupLoaded \/ StartupFails)
  /\ \A k \in 1..Len(ServerChunks) : WF_vars(PrefetchResolves(k))
  /\ WF_vars(PrefetchDone)
  /\ \A i \in 1..MaxSelections : WF_vars(FetchResolves(i))

(***************************************************************************)
(* Vocabulary of the properties, stated without the loops of the code.     *)
(***************************************************************************)
\* every record held by the index, with its bucket length and key
IndexSlots ==
  {<<L, k, j>> \in (DOMAIN ndcByLength) \X (1..8) \X (1..8) :
      k <= Len(ndcByLength[L]) /\ j <= Len(ndcByLength[L][k].arr)}

SlotRecord(slot) == ndcByLength[slot[1]][slot[2]].arr[slot[3]]

IndexRecords == {SlotRecord(slot) : slot \in IndexSlots}

\* v occurs in d starting at position i (1-based)
OccursAt(v, d, i) == i >= 1 /\ i + Len(v) - 1 <= Len(d) /\ SubSeq(d, i, i + Len(v) - 1) = v

IsSubstring(v, d) == \E i \in 1..Len(d) : OccursAt(v, d, i)

ForwardRecords(d) ==
  {r \in IndexRecords : Len(r.variant) <= Len(d) /\ IsSubstring(r.variant, d)}

ReverseRecords(d) ==
  {r \in IndexRecords : Len(r.variant) > Len(d) /\ IsSubstring(d, r.variant)}

RecordTriple(r) == <<r.idx, r.variant, r.vtype>>

MatchTriple(m) == <<m.idx, m.normalizedProductNdc, m.matchedVariantType>>

\* the price entries the enrich loop has handled
Handled == 1..medPos

MedDigits(i) == normalizeMedNdc(medUnique[i].ndc)

ModesOf(i) == {candidates[i][a].matchMode : a \in 1..Len(candidates[i])}

TriplesOf(i, mode) ==
  {MatchTriple(candidates[i][a]) : a \in {b \in 1..Len(candidates[i]) : candidates[i][b].matchMode = mode}}

\* the fields of a match are those of the entry it names
MatchOfEntry(m) ==
  /\ m.idx + 1 \in 1..Len(entries)
  /\ m.productNdc = entries[m.idx + 1].productNdc
  /\ m.brandName = entries[m.idx + 1].brandName

\* C1: a lookup's result never mixes directions, and holds a reverse match
\* only if no indexed variant of length <= n occurs in the digit-stripped
\* identifier
C1_ReverseOnlyWhenForwardEmpty ==
  \A i \in Handled :
    /\ Cardinality(ModesOf(i)) <= 1
    /\ "reverse" \in ModesOf(i) => ForwardRecords(MedDigits(i)) = {}

\* a lookup answered by the forward phase although longer variants contain the identifier
C1_Witness ==
  \E i \in Handled :
    /\ ModesOf(i) = {"forward"}
    /\ ReverseRecords(MedDigits(i)) # {}

\* C2: for a non-empty digit-stripped identifier the forward matches are
\* exactly the index records whose variant is no longer than it and occurs
\* in it, each tagged forward
C2_ForwardExact ==
  \A i \in Handled :
    MedDigits(i) # <<>> =>
      /\ TriplesOf(i, "forward") = {RecordTriple(r) : r \in ForwardRecords(MedDigits(i))}
      /\ \A a \in 1..Len(candidates[i]) :
           /\ MatchOfEntry(candidates[i][a])
           /\ MatchTriple(candidates[i][a]) \in
                {RecordTriple(r) : r \in ForwardRecords(MedDigits(i))}
              => candidates[i][a].matchMode = "forward"

\* a lookup with two forward matches, one of them as long as the identifier,
\* while another short variant of the index does not occur in it
C2_Witness ==
  \E i \in Handled :
    /\ Cardinality(TriplesOf(i, "forward")) >= 2
    /\ \E t \in TriplesOf(i, "forward") : Len(t[2]) = Len(MedDigits(i))
    /\ \E r \in IndexRecords :
         Len(r.variant) <= Len(MedDigits(i)) /\ ~IsSubstring(r.variant, MedDigits(i))

\* C3: when the forward phase finds nothing, the matches are exactly the
\* index records whose variant is strictly longer than the digit-stripped
\* identifier and contains it, each tagged reverse
C3_ReverseExact ==
  \A i \in Handled :
    /\ (MedDigits(i) # <<>> /\ ForwardRecords(MedDigits(i)) = {}) =>
         /\ ModesOf(i) \subseteq {"reverse"}
         /\ TriplesOf(i, "reverse") = {RecordTriple(r) : r \in ReverseRecords(MedDigits(i))}
    /\ \A a \in 1..Len(candidates[i]) :
         candidates[i][a].matchMode = "reverse" =>
           Len(candidates[i][a].normalizedProductNdc) > Len(MedDigits(i))

\* a lookup answered by the reverse phase, where the identifier is inside a
\* longer variant but not at its start, and another longer variant lacks it
C3_Witness ==
  \E i \in Handled :
    /\ ModesOf(i) = {"reverse"}
    /\ \E t \in TriplesOf(i, "reverse") : ~OccursAt(MedDigits(i), t[2], 1)
    /\ \E r \in IndexRecords :
         Len(r.variant) > Len(MedDigits(i)) /\ ~IsSubstring(MedDigits(i), r.variant)

\* C4: a lookup's result holds no two matches with the same (entry, variant,
\* hypothesis) triple
C4_NoDuplicateTriples ==
  \A i \in Handled :
    \A a, b \in 1..Len(candidates[i]) :
      MatchTriple(candidates[i][a]) = MatchTriple(candidates[i][b]) => a = b

\* a matched variant occurs at two positions of the identifier, and one
\* entry is matched under two distinct variants
C4_Witness ==
  \E i \in Handled :
    /\ \E a \in 1..Len(candidates[i]) :
         \E p, q \in 1..Len(MedDigits(i)) :
           /\ p # q
           /\ OccursAt(candidates[i][a].normalizedProductNdc, MedDigits(i), p)
           /\ OccursAt(candidates[i][a].normalizedProductNdc, MedDigits(i), q)
    /\ \E a, b \in 1..Len(candidates[i]) :
         /\ candidates[i][a].idx = candidates[i][b].idx
         /\ candidates[i][a].normalizedProductNdc # candidates[i][b].normalizedProductNdc

(***************************************************************************)
(* Properties of the index.                                                *)
(***************************************************************************)
\* the strings got from a normalized form v by dropping k leading '0'
\* characters, where every dropped character is '0' and a drop is made only
\* from a string longer than the floor
StrippedForms(v) ==
  {SubSeq(v, k + 1, Len(v)) :
     k \in {n \in 0..Len(v) - 1 :
              /\ \A j \in 1..n : v[j] = "0"
              /\ n = 0 \/ Len(v) - n >= StripFloor}}

\* the entries the index build has handled (0-based idx)
Indexed == 0..buildPos - 1

DigitsForm(idx) == entries[idx + 1].ndcDigits

ZeroFillForm(idx) == entries[idx + 1].ndcZeroFill

VariantsOf(idx) == {r.variant : r \in {x \in IndexRecords : x.idx = idx}}

\* C5: the index holds, for each entry, each of its two normalized forms and
\* every string got by dropping leading '0' characters down to the 5-character
\* floor, and nothing else: no stripped variant is shorter than 5 and a form
\* of length <= 5 is indexed unchanged
C5_LeadingZeroStripping ==
  \A idx \in Indexed :
    /\ VariantsOf(idx) = StrippedForms(DigitsForm(idx)) \cup StrippedForms(ZeroFillForm(idx))
    /\ \A v \in VariantsOf(idx) :
         v \in {DigitsForm(idx), ZeroFillForm(idx)} \/ Len(v) >= StripFloor
    /\ \A f \in {DigitsForm(idx), ZeroFillForm(idx)} :
         (f # <<>> /\ Len(f) <= StripFloor) =>
           /\ f \in VariantsOf(idx)
           /\ \A k \in 1..Len(f) - 1 :
                SubSeq(f, k + 1, Len(f)) \in VariantsOf(idx) =>
                  SubSeq(f, k + 1, Len(f)) \in {DigitsForm(idx), ZeroFillForm(idx)}

\* an entry whose stripping was stopped by the floor (the 5-character variant
\* still starts with '0'), one stopped by a non-'0' character above the floor,
\* and one whose form of at most 5 characters starts with '0'
C5_Witness ==
  /\ \E idx \in Indexed :
       \E f \in {DigitsForm(idx), ZeroFillForm(idx)} :
         /\ Len(f) > StripFloor
         /\ SubSeq(f, Len(f) - StripFloor + 1, Len(f)) \in VariantsOf(idx)
         /\ f[Len(f) - StripFloor + 1] = "0"
  /\ \E idx \in Indexed :
       \E f \in {DigitsForm(idx), ZeroFillForm(idx)} :
         \E k \in 1..Len(f) - 1 :
           /\ Len(f) - k > StripFloor
           /\ f[k + 1] # "0"
           /\ SubSeq(f, k + 1, Len(f)) \in VariantsOf(idx)
  /\ \E idx \in Indexed :
       \E f \in {DigitsForm(idx), ZeroFillForm(idx)} :
         f # <<>> /\ Len(f) <= StripFloor /\ f[1] = "0" /\ f \in VariantsOf(idx)

\* number of records the bucket of the variant's length holds for (idx, variant, vtype)
RecordCount(idx, variant, vtype) ==
  Cardinality({slot \in IndexSlots :
                 /\ slot[1] = Len(variant)
                 /\ ndcByLength[slot[1]][slot[2]].key = variant
                 /\ SlotRecord(slot) = [idx |-> idx, variant |-> variant, vtype |-> vtype]})

\* C6 as stated: one record per (variant, hypothesis) pair, so a string that
\* is a variant under both hypotheses is indexed under both
C6_OnePerVariantAndHypothesis ==
  \A idx \in Indexed :
    /\ \A v \in StrippedForms(DigitsForm(idx)) : RecordCount(idx, v, "digits") = 1
    /\ \A v \in StrippedForms(ZeroFillForm(idx)) : RecordCount(idx, v, "zeroFill") = 1

\* C6 amended: one record per distinct variant string of the entry, tagged
\* digits when the string is a digits-only variant and zeroFill otherwise
C6_OnePerVariantString ==
  \A idx \in Indexed :
    /\ \A v \in StrippedForms(DigitsForm(idx)) :
         RecordCount(idx, v, "digits") = 1 /\ RecordCount(idx, v, "zeroFill") = 0
    /\ \A v \in StrippedForms(ZeroFillForm(idx)) \ StrippedForms(DigitsForm(idx)) :
         RecordCount(idx, v, "zeroFill") = 1 /\ RecordCount(idx, v, "digits") = 0
    /\ \A slot \in IndexSlots :
         /\ SlotRecord(slot).variant = ndcByLength[slot[1]][slot[2]].key
         /\ Len(SlotRecord(slot).variant) = slot[1]

\* an indexed entry with a string that is a variant under both hypotheses and
\* a string that is a zero-fill variant only
C6_Witness ==
  \E idx \in Indexed :
    /\ StrippedForms(DigitsForm(idx)) \cap StrippedForms(ZeroFillForm(idx)) # {}
    /\ StrippedForms(ZeroFillForm(idx)) \ StrippedForms(DigitsForm(idx)) # {}

(***************************************************************************)
(* Properties of the output records.                                       *)
(***************************************************************************)
IsAlnumChar(c) == ToLower(c) \in LowerChars \cup DigitChars

\* s[i..j] is a maximal run of letters and digits of at least 3 characters
IsWordAt(s, i, j) ==
  /\ 1 <= i /\ i <= j /\ j <= Len(s)
  /\ j - i + 1 >= MinTokenLen
  /\ \A k \in i..j : IsAlnumChar(s[k])
  /\ i = 1 \/ ~IsAlnumChar(s[i - 1])
  /\ j = Len(s) \/ ~IsAlnumChar(s[j + 1])

WordsOf(s) ==
  {[k \in 1..(ij[2] - ij[1] + 1) |-> ToLower(s[ij[1] + k - 1])] :
     ij \in {x \in (1..Len(s)) \X (1..Len(s)) : IsWordAt(s, x[1], x[2])}}

IsBlank(s) == \A k \in 1..Len(s) : IsSpace(s[k])

\* what the semantic filter is to let through
Plausible(brandName, description) ==
  ~IsBlank(brandName) /\ WordsOf(brandName) \cap WordsOf(description) # {}

HasMatches(rec) == "fdaMatches" \in DOMAIN rec

MatchesOf(i) == IF HasMatches(enriched[i]) THEN enriched[i].fdaMatches ELSE <<>>

\* positions of the candidates of price entry i that pass the semantic filter
Survivors(i) ==
  {k \in 1..Len(candidates[i]) :
     Plausible(candidates[i][k].brandName, medUnique[i].ndc_description)}

SurvivorLengths(i) == {Len(candidates[i][k].normalizedProductNdc) : k \in Survivors(i)}

\* C7: every match of an output record has a non-blank brand name sharing a
\* token of 3 or more characters with the record's description
C7_TokenOverlap ==
  \A i \in 1..Len(enriched) :
    \A a \in 1..Len(MatchesOf(i)) :
      Plausible(MatchesOf(i)[a].brandName, enriched[i].ndc_description)

\* an output record with a match, one of whose candidates was discarded
\* although its brand name shares a 2-character word with the description
C7_Witness ==
  \E i \in 1..Len(enriched) :
    /\ Len(MatchesOf(i)) > 0
    /\ \E k \in 1..Len(candidates[i]) :
         /\ k \notin Survivors(i)
         /\ \E w \in SeqToSet(SplitNonAlnum(normalizeWhitespaceLower(candidates[i][k].brandName), <<>>)) :
              /\ Len(w) = 2
              /\ w \in SeqToSet(SplitNonAlnum(normalizeWhitespaceLower(enriched[i].ndc_description), <<>>))

\* C8: the matches of an output record are the candidates that survived the
\* semantic filter and have the maximum variant length among the survivors,
\* all of them, each marked bestMatch
C8_BestMatchSelection ==
  \A i \in 1..Len(enriched) :
    HasMatches(enriched[i]) =>
      LET maxLen == CHOOSE x \in SurvivorLengths(i) : \A y \in SurvivorLengths(i) : y <= x
      IN /\ SurvivorLengths(i) # {}
         /\ \A a \in 1..Len(MatchesOf(i)) :
              /\ Len(MatchesOf(i)[a].normalizedProductNdc) = maxLen
              /\ MatchesOf(i)[a].bestMatch = TRUE
         /\ {MatchTriple(MatchesOf(i)[a]) : a \in 1..Len(MatchesOf(i))} =
              {MatchTriple(candidates[i][k]) :
                 k \in {x \in Survivors(i) : Len(candidates[i][x].normalizedProductNdc) = maxLen}}
         /\ Len(MatchesOf(i)) =
              Cardinality({x \in Survivors(i) : Len(candidates[i][x].normalizedProductNdc) = maxLen})

\* an output record whose surviving candidates have two different lengths
C8_Witness ==
  \E i \in 1..Len(enriched) :
    HasMatches(enriched[i]) /\ Cardinality(SurvivorLengths(i)) >= 2

CandidateLengths(i) ==
  {Len(candidates[i][k].normalizedProductNdc) : k \in 1..Len(candidates[i])}

EqualLengths(ms) ==
  \A a, b \in 1..Len(ms) :
    Len(ms[a].normalizedProductNdc) = Len(ms[b].normalizedProductNdc)

\* C9 as stated: the common length of the matches is maximal among the
\* candidates returned by the resolver, before the semantic filter
C9_MaximalAmongPreFilter ==
  \A i \in 1..Len(enriched) :
    /\ EqualLengths(MatchesOf(i))
    /\ \A a \in 1..Len(MatchesOf(i)) :
         \A L \in CandidateLengths(i) : L <= Len(MatchesOf(i)[a].normalizedProductNdc)

\* C9 amended: the matches have equal variant length, each is one of the
\* resolver's candidates, and no candidate that passes the semantic filter is
\* longer
C9_MaximalAmongSurvivors ==
  \A i \in 1..Len(enriched) :
    /\ EqualLengths(MatchesOf(i))
    /\ \A a \in 1..Len(MatchesOf(i)) :
         /\ \E k \in 1..Len(candidates[i]) :
              MatchTriple(candidates[i][k]) = MatchTriple(MatchesOf(i)[a])
         /\ \A k \in Survivors(i) :
              Len(candidates[i][k].normalizedProductNdc)
                <= Len(MatchesOf(i)[a].normalizedProductNdc)

\* an output record with a match, whose longest candidate was discarded by
\* the semantic filter
C9_Witness ==
  \E i \in 1..Len(enriched) :
    /\ Len(MatchesOf(i)) > 0
    /\ \E L \in CandidateLengths(i) : L > Len(MatchesOf(i)[1].normalizedProductNdc)

\* C10: the enrich loop emits one output record per price entry, in input
\* order, and when it is over the output is as long as the deduplicated input
C10_Coverage ==
  /\ Len(enriched) = medPos
  /\ \A i \in 1..Len(enriched) :
       /\ i <= Len(medUnique)
       /\ enriched[i].ndc_description = medUnique[i].ndc_description
       /\ enriched[i].ndc = medUnique[i].ndc
  /\ pc = "chunks" => Len(enriched) = Len(medUnique)

\* a finished run over two price entries, one matched and one unmatched
C10_Witness ==
  /\ pc = "chunks"
  /\ Len(medUnique) = 2
  /\ \E i, j \in 1..Len(enriched) : HasMatches(enriched[i]) /\ ~HasMatches(enriched[j])

(***************************************************************************)
(* Properties of the unmatched records and of the output files.            *)
(***************************************************************************)
NativeKeys ==
  {"ndc_description", "ndc", "nadac_per_unit", "pricing_unit",
   "classification_for_rate_setting", "otc"}

\* the price entry has a value for the key
HasValue(med, f) == f \in OptionalKeys => med[f] # undefined

RECURSIVE ConcatChunks(_, _)
\* the chunk files read in the order of the manifest, from entry k on
ConcatChunks(chunks, k) ==
  IF k > Len(chunks) THEN <<>>
  ELSE chunkFiles.files[chunks[k].filename] \o ConcatChunks(chunks, k + 1)

RECURSIVE SumCounts(_, _)
SumCounts(chunks, k) ==
  IF k > Len(chunks) THEN 0 ELSE chunks[k].count + SumCounts(chunks, k + 1)

ManifestWritten == fileManifest.run = "new"

\* C12: the chunk files, read in manifest order, give back the consolidated
\* collection: each file is the contiguous slice that starts where the
\* previous one ends, and the directory holds no other chunk file
C12_PartitionsReconstruct ==
  ManifestWritten =>
    LET chunks == fileManifest.content.chunks
    IN /\ \A k \in 1..Len(chunks) : chunks[k].filename \in DOMAIN chunkFiles.files
       /\ DOMAIN chunkFiles.files = {chunks[k].filename : k \in 1..Len(chunks)}
       /\ \A j, k \in 1..Len(chunks) : chunks[j].filename = chunks[k].filename => j = k
       /\ ConcatChunks(chunks, 1) = fileEnriched.content
       /\ \A k \in 1..Len(chunks) :
            LET before == SumCounts(SubSeq(chunks, 1, k - 1), 1)
                file == chunkFiles.files[chunks[k].filename]
            IN /\ Len(file) >= 1
               /\ file = SubSeq(fileEnriched.content, before + 1, before + Len(file))

\* five records in three chunk files, the last one not full
C12_Witness ==
  /\ ManifestWritten
  /\ Len(fileEnriched.content) = 5
  /\ Len(fileManifest.content.chunks) = 3
  /\ Len(chunkFiles.files[fileManifest.content.chunks[3].filename]) = 1

\* C13: the manifest has total = N = sum of the chunk counts, numberOfChunks
\* = number of listed chunks = ceil(N/S); every chunk but the last has S
\* records and the last has between 1 and S
C13_ManifestConsistent ==
  ManifestWritten =>
    LET m == fileManifest.content
        N == Len(enriched)
        S == chunkSize
    IN /\ m.total = N
       /\ m.total = SumCounts(m.chunks, 1)
       /\ m.chunkSize = S
       /\ m.numberOfChunks = Len(m.chunks)
       /\ m.numberOfChunks = (N + S - 1) \div S
       /\ \A k \in 1..Len(m.chunks) - 1 : m.chunks[k].count = S
       /\ Len(m.chunks) > 0 =>
            m.chunks[Len(m.chunks)].count \in 1..S
       /\ N = 0 => m.chunks = <<>>

\* the manifest of five records with partition size 2: counts 2, 2, 1
C13_Witness ==
  /\ ManifestWritten
  /\ fileManifest.content.total = 5
  /\ fileManifest.content.numberOfChunks = 3
  /\ [k \in 1..3 |-> fileManifest.content.chunks[k].count] = <<2, 2, 1>>

IndexWritten == fileSearchIndex.run = "new"

IndexDescriptions == fileSearchIndex.content.descriptions

\* the records of the chunk files
ChunkRecords ==
  UNION {SeqToSet(chunkFiles.files[f]) : f \in DOMAIN chunkFiles.files}

\* C14: the search index is sorted and duplicate-free and holds exactly the
\* non-empty descriptions of the consolidated output; once the run is done
\* each of them is the description of a record of some chunk file
C14_SearchIndexExact ==
  IndexWritten =>
    /\ \A j, k \in 1..Len(IndexDescriptions) :
         j < k => StrLess(IndexDescriptions[j], IndexDescriptions[k])
    /\ SeqToSet(IndexDescriptions) =
         {fileEnriched.content[i].ndc_description : i \in 1..Len(fileEnriched.content)} \ {<<>>}
    /\ \A i \in 1..Len(fileEnriched.content) :
         fileEnriched.content[i].ndc_description # <<>> =>
           Cardinality({k \in 1..Len(IndexDescriptions) :
                          IndexDescriptions[k] = fileEnriched.content[i].ndc_description}) = 1
    /\ pc = "done" =>
         \A k \in 1..Len(IndexDescriptions) :
           \E r \in ChunkRecords : r.ndc_description = IndexDescriptions[k]

\* a finished run whose two records come in the reverse of the index order,
\* one of them with an upper-case and one with a lower-case first letter
C14_Witness ==
  /\ pc = "done"
  /\ Len(enriched) = 2
  /\ Len(IndexDescriptions) = 2
  /\ IndexDescriptions[1] = enriched[2].ndc_description
  /\ IndexDescriptions[2] = enriched[1].ndc_description
  /\ IndexDescriptions[1][1] \in DOMAIN UpperToLower
  /\ IndexDescriptions[2][1] \in LowerChars

DescClassWritten == fileDescClass.run = "new"

\* the price entries that carry description d and a classification tag
TaggedWith(d) ==
  {i \in 1..Len(medUnique) :
     /\ medUnique[i].ndc_description = d
     /\ medUnique[i].classification_for_rate_setting # undefined}

FirstOf(S) == CHOOSE i \in S : \A j \in S : i <= j

\* C15: the classification lookup maps every non-empty description that a
\* price entry carries with a tag to the tag of the first such entry,
\* matched or not
C15_FirstSeenWins ==
  DescClassWritten =>
    \A i \in 1..Len(medUnique) :
      LET d == medUnique[i].ndc_description
      IN (d # <<>> /\ TaggedWith(d) # {}) =>
           /\ d \in DOMAIN fileDescClass.content
           /\ fileDescClass.content[d] =
                medUnique[FirstOf(TaggedWith(d))].classification_for_rate_setting

\* the artifacts of this run that are visible at their final paths
VisibleArtifacts ==
  {name \in {"enriched", "searchIndex", "chunks", "manifest", "descClass"} :
     \/ name = "enriched" /\ fileEnriched.run = "new"
     \/ name = "searchIndex" /\ fileSearchIndex.run = "new"
     \/ name = "chunks" /\ chunkFiles.run = "new" /\ DOMAIN chunkFiles.files # {}
     \/ name = "manifest" /\ fileManifest.run = "new"
     \/ name = "descClass" /\ fileDescClass.run = "new"}

\* the final paths still hold the artifacts of the earlier run, all of them
EarlierRunIntact ==
  /\ fileEnriched = OldFile
  /\ fileSearchIndex = OldFile
  /\ chunkFiles.run = "old"
  /\ fileManifest = OldFile
  /\ fileDescClass = OldFile

\* C16: when a write fails and the run exits with status 1, no artifact of
\* the run is visible at its final path and the earlier artifacts are not
\* mixed with new or missing ones
C16_NoPartialPublish ==
  pc = "exit1" => (VisibleArtifacts = {} /\ EarlierRunIntact)

\* a step in which the enrich loop makes one lookup
LookupStep == medPos' = medPos + 1

\* buildOpenFdaIndexes has handled every item of the reference file
IndexComplete == Len(entries) = Len(openFdaArr) /\ buildPos = Len(openFdaArr)

\* C17: a lookup is made only once the index build has handled every
\* reference entry, and neither a lookup nor any later step changes the
\* entries or a length bucket
C17_BuildResolveBarrier ==
  [][/\ LookupStep => IndexComplete
     /\ (LookupStep \/ medPos > 0) => (entries' = entries /\ ndcByLength' = ndcByLength)]_vars

\* two lookups made against an index of two entries, the first with a match
C17_Witness ==
  /\ medPos = 2
  /\ Len(entries) = 2
  /\ IndexRecords # {}
  /\ Len(candidates[1]) > 0

DigitPositions(s) == {j \in 1..Len(s) : IsDigit(s[j])}

\* d holds the digits of s, all of them, in their order
DigitsInOrder(s, d) ==
  /\ Len(d) = Cardinality(DigitPositions(s))
  /\ \A j \in DigitPositions(s) :
       d[Cardinality({p \in DigitPositions(s) : p <= j})] = s[j]

\* C18: the normalized identifier holds the digits of the identifier in
\* order, leading zeros included; an identifier without digits gives the
\* empty string, no candidate, and an unmatched output record
C18_DigitsOnlyIdentifier ==
  \A i \in Handled :
    /\ DigitsInOrder(medUnique[i].ndc, MedDigits(i))
    /\ DigitPositions(medUnique[i].ndc) = {} =>
         /\ MedDigits(i) = <<>>
         /\ candidates[i] = <<>>
         /\ ~HasMatches(enriched[i])
         /\ enriched[i].ndc = medUnique[i].ndc
         /\ enriched[i].ndc_description = medUnique[i].ndc_description

\* against a non-empty index, one identifier without any digit and one with
\* a leading zero and a hyphen
C18_Witness ==
  /\ IndexRecords # {}
  /\ \E i \in Handled :
       medUnique[i].ndc # <<>> /\ DigitPositions(medUnique[i].ndc) = {}
  /\ \E i \in Handled :
       /\ medUnique[i].ndc[1] = "0"
       /\ \E j \in 1..Len(medUnique[i].ndc) : medUnique[i].ndc[j] = "-"
       /\ Len(candidates[i]) > 0

ScenarioDigits == <<"0", "0", "0", "0", "2", "3", "2", "3", "1", "3", "0">>

ScenarioZeroFill ==
  <<"0", "0", "0", "0", "2", "0", "3", "2", "3", "1", "0", "3", "0">>

ScenarioStripped == <<"2", "3", "2", "3", "1", "3", "0">>

ScenarioMedNdc == <<"2", "3", "2", "3", "1">>

IsScenarioEntry(k) == k \in 1..Len(entries) /\ entries[k].productNdc = ScenarioNdc

DigitsVariantsOf(idx) ==
  {r.variant : r \in {x \in IndexRecords : x.idx = idx /\ x.vtype = "digits"}}

ScenarioLookups ==
  {i \in Handled : Len(entries) = 1 /\ IsScenarioEntry(1) /\ MedDigits(i) = ScenarioMedNdc}

\* C20 as stated: against the index of the single code 00002-3231-30, the
\* identifier 23231 is matched in the forward direction
C20_ForwardMatch ==
  \A i \in ScenarioLookups : "forward" \in ModesOf(i)

\* C20: against the index of the single code 00002-3231-30, the identifier
\* 23231 has no forward match (no indexed variant is as short as 5
\* characters) and is matched in the reverse direction, by exactly the
\* digits-only variants 00002323130, 0002323130, 002323130, 02323130 and
\* 2323130, each containing 23231
C20_ReverseMatch ==
  \A i \in ScenarioLookups :
    /\ ModesOf(i) = {"reverse"}
    /\ TriplesOf(i, "reverse") =
         {<<0, SubSeq(ScenarioDigits, a, Len(ScenarioDigits)), "digits">> : a \in 1..5}

C20_Witness ==
  \E i \in ScenarioLookups : Len(candidates[i]) = 5 /\ HasMatches(enriched[i])

PairOfRow(k) == <<csvRows[k].desc, csvRows[k].ndc>>

\* the rows that are the first of their (description, identifier) pair
FirstRows == {k \in 1..Len(csvRows) : \A j \in 1..(k - 1) : PairOfRow(j) # PairOfRow(k)}

\* the i-th row of FirstRows, in input order
NthFirstRow(i) ==
  CHOOSE k \in FirstRows : Cardinality({j \in FirstRows : j <= k}) = i

Deduplicated == pc \notin {"start", "index"}

\* C21: buildMedicaidUnique gives one price entry per distinct (description,
\* identifier) pair of the rows, taken from the first row of the pair, in
\* first-occurrence order; rows with different pairs are never merged
C21_OnePerPair ==
  Deduplicated =>
    /\ Len(medUnique) = Cardinality(FirstRows)
    /\ \A i \in 1..Len(medUnique) : medUnique[i] = MedOfRow(csvRows[NthFirstRow(i)])

\* the index holds a variant inside the identifier of price entry i
HasForwardCandidate(i) == ForwardRecords(MedDigits(i)) # {}

\* an index record that contains the identifier of price entry i and whose
\* entry would pass the semantic filter
PlausibleReverseRecords(i) ==
  {r \in ReverseRecords(MedDigits(i)) :
     Plausible(entries[r.idx + 1].brandName, medUnique[i].ndc_description)}

\* C29: a price entry with a forward candidate never carries a reverse match
\* in the output, and when the semantic filter discards all its forward
\* candidates it is emitted unmatched, whatever longer variants contain its
\* identifier
C29_ReverseDecidedBeforeFilter ==
  \A i \in Handled :
    HasForwardCandidate(i) =>
      /\ \A a \in 1..Len(MatchesOf(i)) : MatchesOf(i)[a].matchMode = "forward"
      /\ (\A r \in ForwardRecords(MedDigits(i)) :
            ~Plausible(entries[r.idx + 1].brandName, medUnique[i].ndc_description))
           => ~HasMatches(enriched[i])

\* an entry emitted unmatched after its forward candidates were all
\* discarded, although a longer variant with a plausible name contains its
\* identifier; and the same description matched in reverse when no forward
\* candidate exists
C29_Witness ==
  /\ \E i \in Handled :
       /\ HasForwardCandidate(i)
       /\ Len(candidates[i]) > 0
       /\ PlausibleReverseRecords(i) # {}
       /\ ~HasMatches(enriched[i])
  /\ \E i \in Handled :
       /\ HasForwardCandidate(i)
       /\ HasMatches(enriched[i])
       /\ ReverseRecords(MedDigits(i)) # {}

SecondRunDone == run = 2 /\ pc = "done"

ClassLetterOfFilter == IF drugFilter = "branded" THEN "B" ELSE "G"

ClassLetterLower == IF drugFilter = "branded" THEN "b" ELSE "g"

\* what holds of the suggestion list whatever the filter is
SuggestionListSound ==
  /\ (~dataLoaded \/ Len(searchTerm) < 2) => CurrentSuggestions = <<>>
  /\ Len(CurrentSuggestions) <= 10
  /\ \A k \in 1..Len(CurrentSuggestions) :
       /\ CurrentSuggestions[k] \in SeqToSet(searchIndex.descriptions)
       /\ IsSubstring(toLowerCase(searchTerm), toLowerCase(CurrentSuggestions[k]))
  /\ showSuggestions => Len(searchTerm) >= 2

PrefetchChunkFailed ==
  \E k \in 1..Len(prefetch) : prefetch[k].state = "done" /\ prefetch[k].arr = <<>>

\* C24: when every request is answered in the end, the app reaches
\* dataLoaded = true with loading = false; after the failure of a startup
\* file it is there with no medication and an empty search index; the
\* failure of a chunk request does not keep dataLoaded from becoming true
C24_Startup ==
  /\ <>(dataLoaded /\ ~loading)
  /\ [](startupFailure # "none" =>
          /\ dataLoaded /\ ~loading
          /\ medicationsData = <<>>
          /\ searchIndex.descriptions = <<>>)
  /\ (PrefetchChunkFailed ~> dataLoaded)

\* the data is loaded although one of the two chunk requests failed
C24_Witness ==
  /\ dataLoaded /\ ~loading
  /\ PrefetchChunkFailed
  /\ medicationsData # <<>>
  /\ nSelect = 0

\* the selected record, when a medicine is selected
SelectedRecord == selectedMedicine[1].medicine

BestMatcherOfSelected == selectedMedicine[1].bestMatcher

\* positions of the records of the latest completed call's data whose
\* description is the one asked for
ExactPositions ==
  {p \in 1..Len(lastDone[1].dataRef) :
     "ndc_description" \in DOMAIN lastDone[1].dataRef[p]
     /\ lastDone[1].dataRef[p].ndc_description = lastDone[1].description}

WithFda(P) == {p \in P : "fdaMatches" \in DOMAIN lastDone[1].dataRef[p]
                         /\ Len(lastDone[1].dataRef[p].fdaMatches) > 0}

Least(P) == CHOOSE p \in P : \A q \in P : p <= q

\* C28: a completed handleMedicineSelect(description) has looked at exactly
\* the loaded records with that description; with none, selectedMedicine is
\* null and matchedGenerics empty, and loading is false again once no call
\* is waiting; otherwise the selected record is the first of them with a
\* non-empty fdaMatches list, or the first of them when none has one, and
\* its best matcher is fdaMatches[0]
C28_SelectionRule ==
  /\ (dataLoaded /\ calls = <<>>) => ~loading
  /\ lastDone # Null =>
       IF ExactPositions = {}
       THEN selectedMedicine = Null /\ matchedGenerics = <<>>
       ELSE /\ selectedMedicine # Null
            /\ Len(selectedMedicine[1].allMatches) = Cardinality(ExactPositions)
            /\ \A a \in 1..Len(selectedMedicine[1].allMatches) :
                 selectedMedicine[1].allMatches[a].ndc_description = lastDone[1].description
            /\ SelectedRecord =
                 lastDone[1].dataRef[IF WithFda(ExactPositions) # {}
                                     THEN Least(WithFda(ExactPositions))
                                     ELSE Least(ExactPositions)]
            /\ BestMatcherOfSelected =
                 IF WithFda(ExactPositions) # {}
                 THEN <<SelectedRecord.fdaMatches[1]>>
                 ELSE <<>>

\* a selection among two records of the description, the first of them
\* without FDA data and the one selected with two matches
C28_Witness ==
  /\ lastDone # Null
  /\ Cardinality(ExactPositions) = 2
  /\ Least(ExactPositions) \notin WithFda(ExactPositions)
  /\ selectedMedicine # Null
  /\ Len(SelectedRecord.fdaMatches) = 2

\* the key of the claim: lowercased description, price, lowercased labeler
KeyTriple(rec) ==
  <<toLowerCase(trim(StrField(rec, "ndc_description"))),
    trim(StrField(rec, "nadac_per_unit")),
    toLowerCase(resolveLabeler(rec))>>

\* the names of the selected best matcher
SelectedNames ==
  IF selectedMedicine = Null \/ BestMatcherOfSelected = Null THEN {}
  ELSE {BestMatcherOfSelected[1].brandName, BestMatcherOfSelected[1].genericName} \ {<<>>}

\* a match of rec has a brand or generic name that contains a name of the
\* selected best matcher, whatever the case of the letters
RelatedToSelected(rec) ==
  /\ "fdaMatches" \in DOMAIN rec
  /\ \E a \in 1..Len(rec.fdaMatches) :
       \E n \in {rec.fdaMatches[a].brandName, rec.fdaMatches[a].genericName} :
         \E s \in SelectedNames : IsSubstring(toLowerCase(s), toLowerCase(n))

\* C26: matchedGenerics holds no record of class B, no record with the key
\* of the selected medicine and no two records with the same key, and every
\* record in it has a match whose brand or generic name contains the brand
\* or generic name of the selected best matcher
C26_GenericsSound ==
  /\ selectedMedicine = Null => matchedGenerics = <<>>
  /\ \A k \in 1..Len(matchedGenerics) :
       /\ StrField(matchedGenerics[k], "classification_for_rate_setting") # <<"B">>
       /\ KeyTriple(matchedGenerics[k]) # KeyTriple(SelectedRecord)
       /\ \A j \in 1..Len(matchedGenerics) :
            KeyTriple(matchedGenerics[j]) = KeyTriple(matchedGenerics[k]) => j = k
       /\ RelatedToSelected(matchedGenerics[k])

\* a selection with an alternative listed, while the loaded data also holds
\* a related record of class B, another related record with the key of the
\* selected one and a record that is not related
C26_Witness ==
  /\ selectedMedicine # Null
  /\ Len(matchedGenerics) > 0
  /\ \E p, q, r \in 1..Len(medicationsData) :
       /\ RelatedToSelected(medicationsData[p])
       /\ medicationsData[p].classification_for_rate_setting = <<"B">>
       /\ KeyTriple(medicationsData[p]) # KeyTriple(SelectedRecord)
       /\ RelatedToSelected(medicationsData[q])
       /\ medicationsData[q] # SelectedRecord
       /\ KeyTriple(medicationsData[q]) = KeyTriple(SelectedRecord)
       /\ ~RelatedToSelected(medicationsData[r])

\* C27: after a completed selection every record of the data the selected
\* medicine was found in that is related to the selected best matcher, is
\* not of class B and has not the key of the selected medicine has its key
\* in matchedGenerics
C27_GenericsComplete ==
  (lastDone # Null /\ selectedMedicine # Null) =>
    \A p \in 1..Len(lastDone[1].dataRef) :
      LET rec == lastDone[1].dataRef[p]
      IN (/\ RelatedToSelected(rec)
          /\ StrField(rec, "classification_for_rate_setting") # <<"B">>
          /\ KeyTriple(rec) # KeyTriple(SelectedRecord))
         => \E k \in 1..Len(matchedGenerics) : KeyTriple(matchedGenerics[k]) = KeyTriple(rec)

\* the same, for the selections that found the data loaded
C27_CompleteWhenPreloaded ==
  (lastDone # Null /\ ~lastDone[1].onDemand) => C27_GenericsComplete

\* C25: no chunk file is fetched again once a request for it was answered
\* with the file
C25_NoRepeatedFetch ==
  \A f \in DOMAIN fetches : fetches[f].ok <= 1

AllSelectionsDone == nSelect > 0 /\ calls = <<>> /\ timers = <<>>

\* C30: once every handleMedicineSelect call has run to its end, the
\* selected medicine is a record of the description requested last
C30_LastRequestWins ==
  (AllSelectionsDone /\ selectedMedicine # Null) =>
    SelectedRecord.ndc_description = lastRequested

====
